---- MODULE Spec2Model ----
(***************************************************************************)
(* A model of imalink-core: ImageValidator.validate_file, the GPS part of  *)
(* ExifExtractor, process_image, batch_process and the /v1/process HTTP    *)
(* endpoint.                                                               *)
(*                                                                         *)
(* Python's Optional[T] is modelled as a sequence: None is <<>> and a      *)
(* present value v is <<v>>, so that an empty string (<<"">>) and None     *)
(* stay different values.                                                  *)
(***************************************************************************)
EXTENDS Integers, Sequences, FiniteSets, TLC

VARIABLES entry, paths, coldpreview_size, has_callback, pc, i, results,
          cb_log, calls, loc, outcome

vars == <<entry, paths, coldpreview_size, has_callback, pc, i, results,
          cb_log, calls, loc, outcome>>

None == <<>>
Some(v) == <<v>>
IsNone(o) == o = <<>>
IsSome(o) == o # <<>>
Get(o) == o[1]

(***************************************************************************)
(* FormatDetector (image/formats.py)                                       *)
(***************************************************************************)
SUPPORTED_EXTENSIONS ==
    { ".jpg", ".jpeg", ".png", ".tiff", ".tif",
      ".nef", ".nrw", ".cr2", ".cr3", ".crw", ".arw", ".srf", ".sr2",
      ".raf", ".orf", ".rw2", ".raw", ".pef", ".ptx", ".x3f", ".rwl",
      ".dng", ".mrw", ".srw", ".3fr", ".dcr", ".kdc", ".mef", ".iiq",
      ".heic", ".webp" }

\* str.lower() on the suffixes the model uses
Lower(s) ==
    CASE s = ".JPG" -> ".jpg"
      [] s = ".Png" -> ".png"
      [] s = ".NEF" -> ".nef"
      [] s = ".TXT" -> ".txt"
      [] s = ".CR3" -> ".cr3"
      [] s = ".Dng" -> ".dng"
      [] s = ".HEIC" -> ".heic"
      [] s = ".Jpeg" -> ".jpeg"
      [] OTHER -> s

is_supported(file) == Lower(file.suffix) \in SUPPORTED_EXTENSIONS

RAW_EXTENSIONS ==
    { ".nef", ".nrw", ".cr2", ".cr3", ".crw", ".arw", ".srf", ".sr2",
      ".raf", ".orf", ".rw2", ".raw", ".pef", ".ptx", ".x3f", ".rwl", ".dng",
      ".mrw", ".srw", ".3fr", ".dcr", ".kdc", ".mef", ".iiq" }

is_raw_format(file) == Lower(file.suffix) \in RAW_EXTENSIONS

\* format_map.get(ext): the ImageFormat of an extension, None without an entry
detect_format(file) ==
    LET ext == Lower(file.suffix)
    IN  CASE ext \in {".jpg", ".jpeg"} -> Some("JPEG")
          [] ext = ".png" -> Some("PNG")
          [] ext \in {".tiff", ".tif"} -> Some("TIFF")
          [] ext = ".nef" -> Some("NEF")
          [] ext = ".cr2" -> Some("CR2")
          [] ext = ".arw" -> Some("ARW")
          [] ext = ".dng" -> Some("DNG")
          [] ext = ".heic" -> Some("HEIC")
          [] ext = ".webp" -> Some("WEBP")
          [] OTHER -> None

(***************************************************************************)
(* ImageValidator (validation/image_validator.py)                          *)
(***************************************************************************)
MAX_FILE_SIZE == 500 * 1024 * 1024
MIN_DIMENSIONS == <<100, 100>>
MAX_DIMENSIONS == <<50000, 50000>>

\* a reason string f"<msg>: <arg>"
Reason(msg, arg) == [msg |-> msg, arg |-> arg]

VReturn(valid, reason, ops) ==
    [status |-> "returned", valid |-> valid, reason |-> reason,
     exc |-> None, ops |-> ops]
VRaise(exc, ops) ==
    [status |-> "raised", valid |-> FALSE, reason |-> None,
     exc |-> Some(exc), ops |-> ops]

\* The tail of validate_file: the with-block around Image.open.
\* ops is the sequence of probes of the file made so far.
ValidateOpen(file, ops) ==
    IF ~file.opens
    THEN VReturn(FALSE, Some(Reason("Cannot open image", file.open_error)),
                 ops \o <<"Image.open">>)
    ELSE LET w == file.w
             h == file.h
             ops2 == ops \o <<"Image.open", "img.size">>
         IN  IF w < MIN_DIMENSIONS[1] \/ h < MIN_DIMENSIONS[2]
             THEN VReturn(FALSE, Some(Reason("Image too small",
                              ToString(w) \o "x" \o ToString(h))), ops2)
             ELSE IF w > MAX_DIMENSIONS[1] \/ h > MAX_DIMENSIONS[2]
             THEN VReturn(FALSE, Some(Reason("Image too large",
                              ToString(w) \o "x" \o ToString(h))), ops2)
             ELSE VReturn(TRUE, None, ops2)

\* the format check made before the size checks
ValidateSize_FormatFirst(file, ops) ==
    IF ~is_supported(file)
    THEN VReturn(FALSE, Some(Reason("Unsupported format", file.suffix)),
                 ops \o <<"is_supported">>)
    ELSE IF file.size > MAX_FILE_SIZE
    THEN VReturn(FALSE, Some(Reason("File too large", ToString(file.size))), ops)
    ELSE IF file.size = 0
    THEN VReturn(FALSE, Some(Reason("File is empty", "")), ops)
    ELSE ValidateOpen(file, ops \o <<"is_supported">>)

\* validate_file after stat() has returned the size
ValidateSize(file, ops) ==
    IF file.size > MAX_FILE_SIZE
    THEN VReturn(FALSE, Some(Reason("File too large", ToString(file.size))), ops)
    ELSE IF file.size = 0
    THEN VReturn(FALSE, Some(Reason("File is empty", "")), ops)
    ELSE IF ~is_supported(file)
    THEN VReturn(FALSE, Some(Reason("Unsupported format", file.suffix)),
                 ops \o <<"is_supported">>)
    ELSE ValidateOpen(file, ops \o <<"is_supported">>)

\* ImageValidator.validate_file.  Path.exists() swallows only ENOENT,
\* ENOTDIR, EBADF and ELOOP; any other OSError of the underlying stat()
\* (EACCES, ENAMETOOLONG, ...) leaves exists() as an exception, and that
\* call is outside every try block of validate_file.
validate_file(file) ==
    IF file.probe = "oserror"
    THEN VRaise("OSError", <<"exists">>)
    ELSE IF file.probe = "missing"
    THEN VReturn(FALSE, Some(Reason("File not found", file.name)), <<"exists">>)
    ELSE IF ~file.is_file
    THEN VReturn(FALSE, Some(Reason("Not a file", file.name)),
                 <<"exists", "is_file">>)
    ELSE IF ~file.stat_ok
    THEN VReturn(FALSE, Some(Reason("Cannot access file", "OSError")),
                 <<"exists", "is_file", "stat">>)
    ELSE ValidateSize(file, <<"exists", "is_file", "stat">>)

(***************************************************************************)
(* Numbers of the GPS conversion.  A float is modelled as an exact         *)
(* rational [n, d] with d > 0; d = 0 is NaN (what float() gives for a      *)
(* rational tag value whose denominator is 0).                             *)
(***************************************************************************)
RECURSIVE Gcd(_, _)
Gcd(a, b) == IF b = 0 THEN a ELSE Gcd(b, a % b)
\* n/d in lowest terms with a positive denominator
Rat(n, d) ==
    IF d = 0 THEN [n |-> 0, d |-> 0]
    ELSE LET g == Gcd(IF n < 0 THEN -n ELSE n, IF d < 0 THEN -d ELSE d)
             sgn == IF d < 0 THEN -1 ELSE 1
         IN  [n |-> sgn * (n \div g), d |-> sgn * (d \div g)]
NaN == [n |-> 0, d |-> 0]
IsNaN(a) == a.d = 0
RAdd(a, b) ==
    IF a.d = 0 \/ b.d = 0 THEN [n |-> 0, d |-> 0]
    ELSE LET g == Gcd(a.d, b.d)
         IN  Rat(a.n * (b.d \div g) + b.n * (a.d \div g), (a.d \div g) * b.d)
RDivInt(a, k) == Rat(a.n, a.d * k)
RNeg(a) == Rat(-a.n, a.d)
\* float comparisons: every comparison with NaN is false
RLe(a, b) == ~IsNaN(a) /\ ~IsNaN(b) /\ a.n * b.d <= b.n * a.d
REq(a, b) == ~IsNaN(a) /\ ~IsNaN(b) /\ a.n * b.d = b.n * a.d
RInt(k) == Rat(k, 1)

(***************************************************************************)
(* Values of EXIF tags as the container library hands them over.  A        *)
(* component is a number ("num": value n/d, NaN when d = 0), a Python      *)
(* tuple (n, d) ("tuple") or something that is no number ("str").  A tag   *)
(* value is absent ("none"), a sequence of components ("seq") or a single  *)
(* component that is no sequence ("scalar").                               *)
(***************************************************************************)
Num(n, d) == [k |-> "num", n |-> n, d |-> d]
Tup(n, d) == [k |-> "tuple", n |-> n, d |-> d]
Str == [k |-> "str", n |-> 0, d |-> 0]

NoTag == [k |-> "none", v |-> <<>>]
SeqTag(s) == [k |-> "seq", v |-> s]
ScalarTag(c) == [k |-> "scalar", v |-> <<c>>]

\* Python truthiness of a tag value (None, (), 0 and "" are falsy)
Truthy(tag) ==
    CASE tag.k = "none" -> FALSE
      [] tag.k = "seq" -> Len(tag.v) > 0
      [] OTHER -> ~(tag.v[1].k = "num" /\ tag.v[1].d # 0 /\ tag.v[1].n = 0)

\* The result of a guarded computation: a value or an exception
Ok(x) == [ok |-> TRUE, x |-> x]
Err == [ok |-> FALSE, x |-> NaN]

\* float(c) for a component
Float(c) ==
    IF c.k = "num" THEN Ok(Rat(c.n, c.d)) ELSE Err

\* "c[0] / c[1] if isinstance(c, tuple) else float(c)"
Component(c) ==
    IF c.k = "tuple"
    THEN IF c.d = 0 THEN Err ELSE Ok(Rat(c.n, c.d))
    ELSE Float(c)

\* ExifExtractor._convert_to_decimal: None (<<>>) or Some(decimal)
_convert_to_decimal(coord_tuple, ref) ==
    IF ~Truthy(coord_tuple) THEN None
    ELSE IF coord_tuple.k = "scalar" THEN None      \* len() raises TypeError
    ELSE
    LET t == coord_tuple.v
        degrees == Component(t[1])
        minutes == Component(t[2])
        seconds == IF Len(t) >= 3 THEN Component(t[3]) ELSE Ok(RInt(0))
        decimal ==
            IF Len(t) = 1 THEN Float(t[1])
            ELSE IF ~degrees.ok \/ ~minutes.ok \/ ~seconds.ok THEN Err
            ELSE Ok(RAdd(degrees.x,
                         RAdd(RDivInt(minutes.x, 60), RDivInt(seconds.x, 3600))))
    IN  IF ~decimal.ok THEN None
        ELSE IF ref \in {"S", "W"} THEN Some(RNeg(decimal.x))
        ELSE Some(decimal.x)

\* The coordinate part of _extract_gps_from_exif (lines 396-415)
GpsCoordinates(gps_ifd) ==
    LET gps_latitude == gps_ifd.lat
        gps_latitude_ref == gps_ifd.lat_ref
        gps_longitude == gps_ifd.lon
        gps_longitude_ref == gps_ifd.lon_ref
    IN  IF Truthy(gps_latitude) /\ Truthy(gps_longitude)
        THEN LET lat == _convert_to_decimal(gps_latitude, gps_latitude_ref)
                 lon == _convert_to_decimal(gps_longitude, gps_longitude_ref)
             IN  IF IsSome(lat) /\ IsSome(lon)
                 THEN IF ~(RLe(RInt(-90), Get(lat)) /\ RLe(Get(lat), RInt(90))
                           /\ RLe(RInt(-180), Get(lon)) /\ RLe(Get(lon), RInt(180)))
                      THEN <<None, None>>
                      ELSE IF REq(Get(lat), RInt(0)) /\ REq(Get(lon), RInt(0))
                      THEN <<None, None>>
                      ELSE <<lat, lon>>
                 ELSE <<lat, lon>>
        ELSE <<None, None>>

\* GPSAltitude (lines 417-428): Err when the read raises
GpsAltitude(gps_ifd) ==
    IF gps_ifd.alt.k = "none" THEN Ok(None)
    ELSE IF gps_ifd.alt.k = "seq"
    THEN \* isinstance(alt_value, tuple): alt_value[0] / alt_value[1]
         IF Len(gps_ifd.alt.v) < 2 THEN Err
         ELSE LET a == gps_ifd.alt.v[1]
                  b == gps_ifd.alt.v[2]
              IN  IF a.k # "num" \/ b.k # "num" THEN Err
                  ELSE IF ~IsNaN(Rat(b.n, b.d)) /\ b.n = 0 THEN Err
                  ELSE IF IsNaN(Rat(a.n, a.d)) \/ IsNaN(Rat(b.n, b.d))
                  THEN Ok(Some(IF gps_ifd.alt_ref = 1 THEN RNeg(NaN) ELSE NaN))
                  ELSE LET q == Rat(a.n * b.d, a.d * b.n)
                       IN  Ok(Some(IF gps_ifd.alt_ref = 1 THEN RNeg(q) ELSE q))
    ELSE LET f == Component(gps_ifd.alt.v[1])
         IN  IF ~f.ok THEN Err
             ELSE Ok(Some(IF gps_ifd.alt_ref = 1 THEN RNeg(f.x) ELSE f.x))

\* int(c) for a component of GPSTimeStamp (truncation towards zero)
ToInt(c) ==
    IF c.k = "num" /\ c.d # 0
    THEN Ok(IF c.n >= 0 THEN c.n \div c.d ELSE -((-c.n) \div c.d))
    ELSE [ok |-> FALSE, x |-> 0]

\* f"{v:02d}"
Pad2(v) == IF v >= 0 /\ v < 10 THEN "0" \o ToString(v) ELSE ToString(v)

\* GPSTimeStamp (lines 430-438): Err when the read raises
GpsTimestamp(gps_ifd) ==
    IF gps_ifd.time.k = "none" THEN Ok(None)
    ELSE IF gps_ifd.time.k = "scalar" THEN Err      \* len() raises TypeError
    ELSE IF Len(gps_ifd.time.v) # 3 THEN Ok(None)
    ELSE LET hour == ToInt(gps_ifd.time.v[1])
             minute == ToInt(gps_ifd.time.v[2])
             second == ToInt(gps_ifd.time.v[3])
         IN  IF ~hour.ok \/ ~minute.ok \/ ~second.ok THEN Err
             ELSE Ok(Some(Pad2(hour.x) \o ":" \o Pad2(minute.x) \o ":"
                          \o Pad2(second.x)))

AllNone == <<None, None, None, None, None, None>>

\* ExifExtractor._extract_gps_from_exif:
\* <<lat, lon, altitude, timestamp, datestamp, map_datum>>; the outer
\* "except Exception" turns a raising read into all-None.
_extract_gps_from_exif(exif) ==
    IF ~exif.has_gps_ifd THEN AllNone
    ELSE LET ll == GpsCoordinates(exif.gps)
             altitude == GpsAltitude(exif.gps)
             timestamp == GpsTimestamp(exif.gps)
         IN  IF ~altitude.ok \/ ~timestamp.ok THEN AllNone
             ELSE <<ll[1], ll[2], altitude.x, timestamp.x,
                    exif.gps.date, exif.gps.datum>>

(***************************************************************************)
(* ExifExtractor.extract_basic (metadata/exif_extractor.py)                *)
(***************************************************************************)
\* A string-valued tag is [t |-> "str", s |-> text]; a tag that holds
\* something else is [t |-> "int", s |-> its text].
StrVal(s) == [t |-> "str", s |-> s]
IntVal(s) == [t |-> "int", s |-> s]
ValTruthy(v) == ~(v.s = "" \/ (v.t = "int" /\ v.s = "0"))

\* datetime.strptime over the listed formats, then isoformat(), on the
\* texts the model uses; the text minus its timezone part is what is parsed
_standardize_datetime(dt_str) ==
    IF ~ValTruthy(dt_str) \/ dt_str.t # "str" THEN dt_str
    ELSE CASE dt_str.s = "2024:07:15 14:30:00" -> StrVal("2024-07-15T14:30:00")
           [] dt_str.s = "2024-07-15 14:30:00" -> StrVal("2024-07-15T14:30:00")
           [] dt_str.s = "2024-07-15T14:30:00Z" -> StrVal("2024-07-15T14:30:00")
           [] dt_str.s = "2023:01:02 03:04:05" -> StrVal("2023-01-02T03:04:05")
           [] dt_str.s = "2022:12:31" -> StrVal("2022-12-31T00:00:00")
           [] OTHER -> dt_str

\* str.strip() on the texts the model uses
Strip(s) ==
    CASE s = " Canon " -> "Canon"
      [] s = "NIKON " -> "NIKON"
      [] s = "  " -> ""
      [] OTHER -> s

BasicMetadata(taken_at, width, height, camera_make, camera_model, g) ==
    [taken_at |-> taken_at, width |-> width, height |-> height,
     camera_make |-> camera_make, camera_model |-> camera_model,
     gps_latitude |-> g[1], gps_longitude |-> g[2], gps_altitude |-> g[3],
     gps_timestamp |-> g[4], gps_datestamp |-> g[5], gps_map_datum |-> g[6]]

\* the loop over DateTimeOriginal, DateTimeDigitized, DateTime
TakenAt(exif) ==
    LET tags == <<exif.dt_original, exif.dt_digitized, exif.dt>>
        hit == {j \in 1..3 : IsSome(tags[j]) /\ ValTruthy(Get(tags[j]))}
    IN  IF hit = {} THEN None
        ELSE LET j == CHOOSE m \in hit : \A n \in hit : m <= n
             IN  Some(_standardize_datetime(Get(tags[j])))

\* "exif[t].strip() if exif[t] else None" for a present tag t:
\* Err when .strip() is called on something that is no string
StripTag(v) ==
    IF ~ValTruthy(v) THEN [ok |-> TRUE, x |-> None]
    ELSE IF v.t # "str" THEN [ok |-> FALSE, x |-> None]
    ELSE [ok |-> TRUE, x |-> Some(Strip(v.s))]

extract_basic(file) ==
    IF ~file.opens
    THEN BasicMetadata(None, None, None, None, None, AllNone)
    ELSE
    LET exif == file.exif
        width == Some(file.w)
        height == Some(file.h)
        taken_at == TakenAt(exif)
        make == IF IsSome(exif.make) THEN StripTag(Get(exif.make))
                ELSE [ok |-> TRUE, x |-> None]
        model == IF IsSome(exif.model) THEN StripTag(Get(exif.model))
                 ELSE [ok |-> TRUE, x |-> None]
    IN  IF ~exif.present
        THEN BasicMetadata(None, width, height, None, None, AllNone)
        ELSE IF ~make.ok
        THEN BasicMetadata(taken_at, width, height, None, None, AllNone)
        ELSE IF ~model.ok
        THEN BasicMetadata(taken_at, width, height, make.x, None, AllNone)
        ELSE BasicMetadata(taken_at, width, height, make.x, model.x,
                           _extract_gps_from_exif(exif))

\* "str(exif[t]).strip()" for a present tag t (extract_basic_from_bytes)
StrStripTag(tag) == IF IsSome(tag) THEN Some(Strip(Get(tag).s)) ELSE None

extract_basic_from_bytes(file) ==
    IF ~file.opens
    THEN BasicMetadata(None, None, None, None, None, AllNone)
    ELSE IF ~file.exif.present
    THEN BasicMetadata(None, Some(file.w), Some(file.h), None, None, AllNone)
    ELSE BasicMetadata(TakenAt(file.exif), Some(file.w), Some(file.h),
                       StrStripTag(file.exif.make), StrStripTag(file.exif.model),
                       _extract_gps_from_exif(file.exif))

(***************************************************************************)
(* ExifExtractor.extract_camera_settings.  The reads are made in the       *)
(* order of the code inside one try block: the first read that raises      *)
(* ends the extraction and leaves every later field None.                  *)
(***************************************************************************)
\* round(n / d, digits) and str() of a number are kept as terms
Rounded(c, digits) == [op |-> "round", digits |-> digits, n |-> c.n, d |-> c.d]
Plain(c) == [op |-> "value", digits |-> 0, n |-> c.n, d |-> c.d]

\* "round(v[0] / v[1], 1) if isinstance(v, tuple) else v" for a present tag
RoundTag(tag, digits) ==
    LET c == tag.v[1]
    IN  IF tag.k = "scalar" /\ c.k = "tuple"
        THEN IF c.d = 0 THEN [ok |-> FALSE, x |-> None]
             ELSE [ok |-> TRUE, x |-> Some(Rounded(c, digits))]
        ELSE [ok |-> TRUE, x |-> Some(Plain(c))]

\* round(n / d) for n >= 0, d > 0: to the nearest integer, a tie to the
\* even one
RoundHalfEven(n, d) ==
    LET q == n \div d
        r == n % d
    IN  IF 2 * r < d THEN q
        ELSE IF 2 * r > d THEN q + 1
        ELSE IF q % 2 = 0 THEN q ELSE q + 1
\* the three decimals of k thousandths, and the same without trailing
\* zeros (one digit at least)
Pad3(k) == ToString(k \div 100) \o ToString((k \div 10) % 10) \o ToString(k % 10)
Trim3(k) ==
    IF k % 100 = 0 THEN ToString(k \div 100)
    ELSE IF k % 10 = 0 THEN ToString(k \div 100) \o ToString((k \div 10) % 10)
    ELSE Pad3(k)
\* f"{x:.3f}" and str(round(x, 3)) of x = c.n / c.d >= 0
Fixed3(c) ==
    LET m == RoundHalfEven(1000 * c.n, c.d)
    IN  ToString(m \div 1000) \o "." \o Pad3(m % 1000)
StrRound3(c) ==
    LET m == RoundHalfEven(1000 * c.n, c.d)
    IN  ToString(m \div 1000) \o "." \o Trim3(m % 1000)

\* shutter_speed of a present ExposureTime tag; str() of a value that is no
\* tuple is kept as a term
ShutterTag(tag) ==
    LET c == tag.v[1]
    IN  IF tag.k = "scalar" /\ c.k = "tuple"
        THEN IF c.n = 1 THEN [ok |-> TRUE, x |-> Some("1/" \o ToString(c.d))]
             ELSE IF c.d = 0 THEN [ok |-> FALSE, x |-> None]
             ELSE [ok |-> TRUE, x |-> Some(StrRound3(c))]
        ELSE [ok |-> TRUE, x |-> Some(ToString(Plain(c)))]

\* "'Fired' if (flash_val & 1) else 'No Flash'": & needs an int
FlashTag(tag) ==
    LET c == tag.v[1]
    IN  IF tag.k = "scalar" /\ c.k = "num" /\ c.d = 1
        THEN [ok |-> TRUE, x |-> Some(IF c.n % 2 = 1 THEN "Fired" ELSE "No Flash")]
        ELSE [ok |-> FALSE, x |-> None]

\* the key a tag value is in the label dictionaries: an int, or a float equal
\* to one; any other value is not a key
LabelKey(tag) ==
    IF tag.k = "scalar" /\ tag.v[1].k = "num" /\ tag.v[1].d = 1
    THEN tag.v[1].n ELSE -1

\* a table whose default is the label of code 0
programs_Undefined(key) ==
    CASE key = 1 -> "Manual"
      [] key = 2 -> "Program AE" [] key = 3 -> "Aperture Priority"
      [] key = 4 -> "Shutter Priority" [] key = 5 -> "Creative Program"
      [] key = 6 -> "Action Program" [] key = 7 -> "Portrait Mode"
      [] key = 8 -> "Landscape Mode" [] OTHER -> "Not Defined"

\* lines 258-264: programs.get(exif[34850], 'Unknown')
programs(key) ==
    CASE key = 0 -> "Not Defined" [] key = 1 -> "Manual"
      [] key = 2 -> "Program AE" [] key = 3 -> "Aperture Priority"
      [] key = 4 -> "Shutter Priority" [] key = 5 -> "Creative Program"
      [] key = 6 -> "Action Program" [] key = 7 -> "Portrait Mode"
      [] key = 8 -> "Landscape Mode" [] OTHER -> "Unknown"

\* lines 351-357: the dictionary of the bytes variant
programs_from_bytes(key) ==
    CASE key = 5 -> "Creative (Slow Speed)" [] key = 6 -> "Action (High Speed)"
      [] key = 7 -> "Portrait" [] key = 8 -> "Landscape"
      [] OTHER -> programs(key)

\* metering.get(exif[37383], 'Unknown')
metering(key) ==
    CASE key = 1 -> "Average" [] key = 2 -> "Center Weighted Average"
      [] key = 3 -> "Spot" [] key = 4 -> "Multi-Spot"
      [] key = 5 -> "Multi-Segment" [] key = 6 -> "Partial"
      [] OTHER -> "Unknown"

\* "'Auto' if wb == 0 else 'Manual'"
WhiteBalance(tag) ==
    IF tag.k = "scalar" /\ tag.v[1].k = "num" /\ tag.v[1].d # 0 /\ tag.v[1].n = 0
    THEN "Auto" ELSE "Manual"

CameraSettings(iso, aperture, shutter_speed, focal_length, lens_model, lens_make, flash, exposure_program, metering_mode, white_balance) ==
    [iso |-> iso, aperture |-> aperture, shutter_speed |-> shutter_speed,
     focal_length |-> focal_length, lens_model |-> lens_model,
     lens_make |-> lens_make, flash |-> flash,
     exposure_program |-> exposure_program, metering_mode |-> metering_mode,
     white_balance |-> white_balance]

\* the three labels, read after the flash
ExposureProgram(e) ==
    IF e.exposure_program.k # "none"
    THEN Some(programs(LabelKey(e.exposure_program))) ELSE None
ExposureProgramFromBytes(e) ==
    IF e.exposure_program.k # "none"
    THEN Some(programs_from_bytes(LabelKey(e.exposure_program))) ELSE None
MeteringMode(e) ==
    IF e.metering_mode.k # "none" THEN Some(metering(LabelKey(e.metering_mode)))
    ELSE None
WhiteBalanceOf(e) ==
    IF e.white_balance.k # "none" THEN Some(WhiteBalance(e.white_balance)) ELSE None

Present(tag) == tag.k # "none"

extract_camera_settings(file) ==
    IF ~file.opens \/ ~file.exif.present
    THEN CameraSettings(None, None, None, None, None, None, None, None, None, None)
    ELSE
    LET e == file.exif
        iso == IF Present(e.iso) THEN Some(Plain(e.iso.v[1])) ELSE None
        ap == IF Present(e.fnumber) THEN RoundTag(e.fnumber, 1)
              ELSE [ok |-> TRUE, x |-> None]
        sh == IF Present(e.exposure) THEN ShutterTag(e.exposure)
              ELSE [ok |-> TRUE, x |-> None]
        fl == IF Present(e.focal) THEN RoundTag(e.focal, 1)
              ELSE [ok |-> TRUE, x |-> None]
        fs == IF Present(e.flash) THEN FlashTag(e.flash)
              ELSE [ok |-> TRUE, x |-> None]
    IN  IF ~ap.ok THEN CameraSettings(iso, None, None, None, None, None, None, None, None, None)
        ELSE IF ~sh.ok
        THEN CameraSettings(iso, ap.x, None, None, None, None, None, None, None, None)
        ELSE IF ~fl.ok
        THEN CameraSettings(iso, ap.x, sh.x, None, None, None, None, None, None, None)
        ELSE IF ~fs.ok
        THEN CameraSettings(iso, ap.x, sh.x, fl.x, e.lens_model, e.lens_make, None, None, None, None)
        ELSE CameraSettings(iso, ap.x, sh.x, fl.x, e.lens_model, e.lens_make, fs.x, ExposureProgram(e), MeteringMode(e),
                            WhiteBalanceOf(e))

Abs(x) == IF x < 0 THEN -x ELSE x

\* int(v) / float(v) of a present tag: a tuple or a text raises
IntTag(tag) ==
    LET c == tag.v[1]
    IN  IF tag.k = "scalar" /\ c.k = "num" /\ c.d # 0
        THEN LET q == IF c.n * c.d >= 0 THEN Abs(c.n) \div Abs(c.d)
                      ELSE -(Abs(c.n) \div Abs(c.d))
             IN  [ok |-> TRUE, x |-> Some(Plain([n |-> q, d |-> 1]))]
        ELSE [ok |-> FALSE, x |-> None]
FloatTag(tag) ==
    LET c == tag.v[1]
    IN  IF tag.k = "scalar" /\ c.k = "num"
        THEN [ok |-> TRUE, x |-> Some(Plain(c))]
        ELSE [ok |-> FALSE, x |-> None]

\* lines 324-331: "1/N" with N = round(1 / exp) below 1, else 3 decimals
ShutterFromFloat(tag) ==
    LET c == tag.v[1]
    IN  IF ~(tag.k = "scalar" /\ c.k = "num") THEN [ok |-> FALSE, x |-> None]
        ELSE IF c.d # 0 /\ c.n = 0 THEN [ok |-> FALSE, x |-> None]   \* 1 / 0.0
        ELSE IF c.d = 0 THEN [ok |-> TRUE, x |-> Some("nan")]
        ELSE IF c.n < c.d
        THEN [ok |-> TRUE, x |-> Some("1/" \o ToString(RoundHalfEven(c.d, c.n)))]
        ELSE [ok |-> TRUE, x |-> Some(Fixed3(c))]

extract_camera_settings_from_bytes(file) ==
    IF ~file.opens \/ ~file.exif.present
    THEN CameraSettings(None, None, None, None, None, None, None, None, None, None)
    ELSE
    LET e == file.exif
        absent == [ok |-> TRUE, x |-> None]
        iso == IF Present(e.iso) THEN IntTag(e.iso) ELSE absent
        ap == IF Present(e.fnumber) THEN FloatTag(e.fnumber) ELSE absent
        sh == IF Present(e.exposure) THEN ShutterFromFloat(e.exposure) ELSE absent
        fl == IF Present(e.focal) THEN FloatTag(e.focal) ELSE absent
        fs == IF Present(e.flash) THEN FlashTag(e.flash) ELSE absent
    IN  IF ~iso.ok THEN CameraSettings(None, None, None, None, None, None, None, None, None, None)
        ELSE IF ~ap.ok
        THEN CameraSettings(iso.x, None, None, None, None, None, None, None, None, None)
        ELSE IF ~sh.ok
        THEN CameraSettings(iso.x, ap.x, None, None, None, None, None, None, None, None)
        ELSE IF ~fl.ok
        THEN CameraSettings(iso.x, ap.x, sh.x, None, None, None, None, None, None, None)
        ELSE IF ~fs.ok
        THEN CameraSettings(iso.x, ap.x, sh.x, fl.x, e.lens_model, e.lens_make, None, None, None, None)
        ELSE CameraSettings(iso.x, ap.x, sh.x, fl.x, e.lens_model, e.lens_make, fs.x, ExposureProgramFromBytes(e), MeteringMode(e),
                            WhiteBalanceOf(e))

(***************************************************************************)
(* PreviewGenerator (preview/generator.py)                                 *)
(***************************************************************************)
DEFAULT_HOT_SIZE == <<150, 150>>
HOT_QUALITY == 85
COLD_QUALITY == 90

Max(a, b) == IF a >= b THEN a ELSE b

\* a resize that always fills the box, enlarging a raster that fits in it
Thumbnail_Upscale(w, h, bw, bh) ==
    IF bw * h >= w * bh THEN <<Max((bh * w) \div h, 1), bh>>
    ELSE <<bw, Max((bw * h) \div w, 1)>>

\* Image.thumbnail's target size for a w x h raster and a (bw, bh) box:
\* unchanged when the raster fits, else the box side that binds and the
\* other side rounded to the nearer aspect ratio, at least 1
Thumbnail(w, h, bw, bh) ==
    IF bw >= w /\ bh >= h THEN <<w, h>>
    ELSE IF bw * h >= w * bh
    THEN \* x = round_aspect(bh * w / h)
         LET lo == (bh * w) \div h
             hi == IF (bh * w) % h = 0 THEN lo ELSE lo + 1
             x == IF Abs(w * bh - lo * h) <= Abs(w * bh - hi * h) THEN lo ELSE hi
         IN  <<Max(x, 1), bh>>
    ELSE \* y = round_aspect(bw * h / w)
         LET lo == (bw * h) \div w
             hi == IF (bw * h) % w = 0 THEN lo ELSE lo + 1
             y == IF lo = 0 THEN lo
                  ELSE IF Abs(w * lo - bw * h) * hi <= Abs(w * hi - bw * h) * lo
                  THEN lo ELSE hi
         IN  <<bw, Max(y, 1)>>

\* ImageOps.exif_transpose: orientations 5..8 swap width and height
Orientation(file) ==
    IF file.exif.present /\ file.exif.orientation \in 2..8
    THEN file.exif.orientation ELSE 1
\* the raster as stored, the orientation tag being ignored
Upright_Stored(file) ==
    [pixels |-> file.pixels, o |-> 1, w |-> file.w, h |-> file.h]
Upright(file) ==
    IF Orientation(file) \in 5..8
    THEN [pixels |-> file.pixels, o |-> Orientation(file), w |-> file.h, h |-> file.w]
    ELSE [pixels |-> file.pixels, o |-> Orientation(file), w |-> file.w, h |-> file.h]

\* the JPEG encoding of a resized raster, SHA-256 and base64 as terms
JpegBytes(raster, size, quality) ==
    [pixels |-> raster.pixels, o |-> raster.o, w |-> size[1], h |-> size[2],
     quality |-> quality]
Sha256Hex(bytes) == [sha256 |-> bytes]
B64Encode(bytes) == [b64 |-> bytes]

PreviewOk(p) == [ok |-> TRUE, x |-> Some(p), exc |-> ""]
PreviewErr(exc) == [ok |-> FALSE, x |-> None, exc |-> exc]

\* a hotpreview whose encoded bytes carry the name of the file
generate_hotpreview_Named(file, size, quality) ==
    IF ~file.opens THEN PreviewErr(file.open_error)
    ELSE IF ~file.load_ok THEN PreviewErr("image file is truncated")
    ELSE LET img == Upright(file)
             t == Thumbnail(img.w, img.h, size[1], size[2])
             preview_bytes == [JpegBytes(img, t, quality) EXCEPT !.pixels = file.name]
         IN  PreviewOk([bytes |-> preview_bytes,
                        base64 |-> B64Encode(preview_bytes),
                        hothash |-> Some(Sha256Hex(preview_bytes)),
                        width |-> t[1], height |-> t[2]])

\* PreviewGenerator.generate_hotpreview(image_path, size, quality)
generate_hotpreview(file, size, quality) ==
    IF ~file.opens THEN PreviewErr(file.open_error)
    ELSE IF ~file.load_ok THEN PreviewErr("image file is truncated")
    ELSE LET img == Upright(file)
             t == Thumbnail(img.w, img.h, size[1], size[2])
             preview_bytes == JpegBytes(img, t, quality)
         IN  PreviewOk([bytes |-> preview_bytes,
                        base64 |-> B64Encode(preview_bytes),
                        hothash |-> Some(Sha256Hex(preview_bytes)),
                        width |-> t[1], height |-> t[2]])

\* PreviewGenerator.generate_coldpreview(image_path, max_size, quality)
generate_coldpreview(file, max_size, quality) ==
    IF ~file.opens THEN PreviewErr(file.open_error)
    ELSE IF ~file.load_ok \/ ~file.cold_ok THEN PreviewErr("image file is truncated")
    ELSE LET img == Upright(file)
             t == Thumbnail(img.w, img.h, max_size, max_size)
             preview_bytes == JpegBytes(img, t, quality)
         IN  PreviewOk([bytes |-> preview_bytes,
                        base64 |-> B64Encode(preview_bytes),
                        hothash |-> None,
                        width |-> t[1], height |-> t[2]])

\* The smallest raster a preview is made of
MIN_RASTER == 4

\* PreviewGenerator.generate_hotpreview_from_image(img): as
\* generate_hotpreview on an opened, upright raster, with the "image too
\* small" ValueError for a raster below 4x4
generate_hotpreview_from_image(file, size, quality) ==
    LET img == Upright(file)
    IN  IF img.w < MIN_RASTER \/ img.h < MIN_RASTER
        THEN [ok |-> FALSE, x |-> None, exc |-> "ValueError: image too small"]
        ELSE IF ~file.load_ok THEN PreviewErr("image file is truncated")
        ELSE LET t == Thumbnail(img.w, img.h, size[1], size[2])
                 preview_bytes == JpegBytes(img, t, quality)
             IN  PreviewOk([bytes |-> preview_bytes,
                            base64 |-> B64Encode(preview_bytes),
                            hothash |-> Some(Sha256Hex(preview_bytes)),
                            width |-> t[1], height |-> t[2]])

\* PreviewGenerator.generate_coldpreview_from_image(img, max_size)
generate_coldpreview_from_image(file, max_size, quality) ==
    LET img == Upright(file)
    IN  IF img.w < MIN_RASTER \/ img.h < MIN_RASTER
        THEN [ok |-> FALSE, x |-> None, exc |-> "ValueError: image too small"]
        ELSE IF ~file.load_ok \/ ~file.cold_ok THEN PreviewErr("image file is truncated")
        ELSE LET t == Thumbnail(img.w, img.h, max_size, max_size)
                 preview_bytes == JpegBytes(img, t, quality)
             IN  PreviewOk([bytes |-> preview_bytes,
                            base64 |-> B64Encode(preview_bytes),
                            hothash |-> None,
                            width |-> t[1], height |-> t[2]])

(***************************************************************************)
(* The files of the model                                                  *)
(***************************************************************************)
NoGps == [lat |-> NoTag, lat_ref |-> "", lon |-> NoTag, lon_ref |-> "",
          alt |-> NoTag, alt_ref |-> 0, time |-> NoTag,
          date |-> None, datum |-> None]

\* The fields are the tags of the mapping img.getexif() returns, which is
\* the first IFD; exif_ifd holds the date tags of the Exif IFD (0x8769),
\* where cameras write DateTimeOriginal and DateTimeDigitized.  The
\* camera-setting fields are the view after the merge of that IFD.
NoExif ==
    [present |-> FALSE, orientation |-> 1,
     dt_original |-> None, dt_digitized |-> None, dt |-> None,
     exif_ifd |-> [dt_original |-> None, dt_digitized |-> None],
     make |-> None, model |-> None, has_gps_ifd |-> FALSE, gps |-> NoGps,
     iso |-> NoTag, fnumber |-> NoTag, exposure |-> NoTag, focal |-> NoTag,
     lens_model |-> None, lens_make |-> None, flash |-> NoTag,
     exposure_program |-> NoTag, metering_mode |-> NoTag,
     white_balance |-> NoTag]

\* 43 deg 28' 2.8128" N, 11 deg 53' 6.4572" E
TuscanyGps ==
    [lat |-> SeqTag(<<Num(43, 1), Num(28, 1), Num(28128, 10000)>>), lat_ref |-> "N",
     lon |-> SeqTag(<<Num(11, 1), Num(53, 1), Num(64572, 10000)>>), lon_ref |-> "E",
     alt |-> ScalarTag(Num(2505, 10)), alt_ref |-> 0,
     time |-> SeqTag(<<Num(14, 1), Num(30, 1), Num(5, 1)>>),
     date |-> Some("2024:07:15"), datum |-> Some("WGS-84")]

CameraExif ==
    [NoExif EXCEPT !.present = TRUE,
                   !.dt_original = Some(StrVal("2024:07:15 14:30:00")),
                   !.dt = Some(StrVal("2023:01:02 03:04:05")),
                   !.make = Some(StrVal(" Canon ")),
                   !.model = Some(StrVal("EOS R5")),
                   !.has_gps_ifd = TRUE, !.gps = TuscanyGps,
                   !.iso = ScalarTag(Num(400, 1)),
                   !.fnumber = ScalarTag(Tup(28, 10)),
                   !.exposure = ScalarTag(Tup(1, 250)),
                   !.focal = ScalarTag(Num(50, 1)),
                   !.lens_model = Some("RF 50mm"),
                   !.flash = ScalarTag(Num(1, 1)),
                   !.exposure_program = ScalarTag(Num(3, 1)),
                   !.metering_mode = ScalarTag(Num(5, 1)),
                   !.white_balance = ScalarTag(Num(0, 1))]

GoodFile ==
    [name |-> "photo.jpg", suffix |-> ".jpg", probe |-> "ok", is_file |-> TRUE,
     stat_ok |-> TRUE, size |-> 2048, opens |-> TRUE, open_error |-> "",
     w |-> 800, h |-> 600, load_ok |-> TRUE, cold_ok |-> TRUE,
     pixels |-> "A", exif |-> CameraExif]

\* a longitude that is no number next to a well-formed latitude
HalfGps == [TuscanyGps EXCEPT !.lon = SeqTag(<<Num(11, 1), Str, Num(0, 1)>>)]

Files ==
    { GoodFile,
      [GoodFile EXCEPT !.name = "icon.Png", !.suffix = ".Png", !.w = 100, !.h = 100,
                       !.pixels = "B", !.exif = NoExif],
      [GoodFile EXCEPT !.name = "nonexistent.jpg", !.probe = "missing"],
      [GoodFile EXCEPT !.name = "locked/photo.jpg", !.probe = "oserror"],
      [GoodFile EXCEPT !.name = "photos", !.suffix = "", !.is_file = FALSE],
      [GoodFile EXCEPT !.name = "empty.jpg", !.size = 0],
      [GoodFile EXCEPT !.name = "notes.TXT", !.suffix = ".TXT"],
      [GoodFile EXCEPT !.name = "corrupt.jpg", !.opens = FALSE,
                       !.open_error = "cannot identify image file"],
      [GoodFile EXCEPT !.name = "small.jpg", !.w = 50, !.h = 50],
      [GoodFile EXCEPT !.name = "truncated.jpg", !.load_ok = FALSE],
      [GoodFile EXCEPT !.name = "huge.jpg", !.cold_ok = FALSE, !.w = 4000,
                       !.h = 3000, !.pixels = "C",
                       !.exif = [CameraExif EXCEPT !.orientation = 6]],
      [GoodFile EXCEPT !.name = "halfgps.jpg", !.pixels = "D",
                       !.exif = [CameraExif EXCEPT !.gps = HalfGps]],
      \* RAW files as Pillow sees them: a TIFF-based one opens as its
      \* embedded 160 x 120 thumbnail, another is not identified at all
      [GoodFile EXCEPT !.name = "DSC_0001.NEF", !.suffix = ".NEF", !.w = 160,
                       !.h = 120, !.pixels = "embedded thumbnail"],
      [GoodFile EXCEPT !.name = "IMG_0002.cr3", !.suffix = ".cr3", !.opens = FALSE,
                       !.open_error = "cannot identify image file"] }

MaxBatch == 2
\* coldpreview_size: None or an integer
ColdSizes == {None, Some(-1), Some(149), Some(150), Some(1920)}

RECURSIVE SeqsUpTo(_, _)
SeqsUpTo(S, n) ==
    IF n = 0 THEN {<<>>}
    ELSE LET shorter == SeqsUpTo(S, n - 1)
         IN  shorter \cup {Append(q, x) : q \in {r \in shorter : Len(r) = n - 1}, x \in S}

(***************************************************************************)
(* process_image and batch_process (api.py)                                *)
(***************************************************************************)
ImportResult(success, hothash, photo, metadata, camera_settings, hotpreview_base64, coldpreview_bytes, error) ==
    [success |-> success, hothash |-> hothash, photo |-> photo,
     metadata |-> metadata, camera_settings |-> camera_settings,
     hotpreview_base64 |-> hotpreview_base64,
     coldpreview_bytes |-> coldpreview_bytes, error |-> error]

Failure(error) == ImportResult(FALSE, None, None, None, None, None, None, Some(error))

MIN_COLD_SIZE == 150
\* "coldpreview_size is not None and coldpreview_size < 150", with its
\* off-by-one variant
TooSmallSize_Inclusive(size) == IsSome(size) /\ Get(size) <= MIN_COLD_SIZE
TooSmallSize(size) == IsSome(size) /\ Get(size) < MIN_COLD_SIZE
SizeError(size) ==
    Reason("coldpreview_size must be >= 150 (hotpreview size), got", ToString(size))

\* the frame of one process_image call
EmptyLoc == [metadata |-> None, camera_settings |-> None, hotpreview |-> None,
             coldpreview |-> None, result |-> None]

\* CorePhoto(...) of lines 93-116
\* a record whose hothash is taken over the coldpreview when there is one
CorePhoto_ColdHash(file, metadata, camera_settings, hotpreview, coldpreview) ==
    [hothash |-> IF IsSome(coldpreview)
                 THEN Some(Sha256Hex(Get(coldpreview).bytes))
                 ELSE hotpreview.hothash,
     hotpreview_base64 |-> Some(hotpreview.base64),
     hotpreview_width |-> Some(hotpreview.width),
     hotpreview_height |-> Some(hotpreview.height),
     coldpreview_base64 |-> IF IsSome(coldpreview) THEN Some(Get(coldpreview).base64) ELSE None,
     coldpreview_width |-> IF IsSome(coldpreview) THEN Some(Get(coldpreview).width) ELSE None,
     coldpreview_height |-> IF IsSome(coldpreview) THEN Some(Get(coldpreview).height) ELSE None,
     primary_filename |-> Some(file.name),
     taken_at |-> metadata.taken_at,
     width |-> metadata.width,
     height |-> metadata.height,
     camera_make |-> metadata.camera_make,
     camera_model |-> metadata.camera_model,
     gps_latitude |-> metadata.gps_latitude,
     gps_longitude |-> metadata.gps_longitude,
     has_gps |-> IsSome(metadata.gps_latitude),
     iso |-> camera_settings.iso,
     aperture |-> camera_settings.aperture,
     shutter_speed |-> camera_settings.shutter_speed,
     focal_length |-> camera_settings.focal_length,
     lens_model |-> camera_settings.lens_model,
     lens_make |-> camera_settings.lens_make]

CorePhoto(file, metadata, camera_settings, hotpreview, coldpreview) ==
    [hothash |-> hotpreview.hothash,
     hotpreview_base64 |-> Some(hotpreview.base64),
     hotpreview_width |-> Some(hotpreview.width),
     hotpreview_height |-> Some(hotpreview.height),
     coldpreview_base64 |-> IF IsSome(coldpreview) THEN Some(Get(coldpreview).base64) ELSE None,
     coldpreview_width |-> IF IsSome(coldpreview) THEN Some(Get(coldpreview).width) ELSE None,
     coldpreview_height |-> IF IsSome(coldpreview) THEN Some(Get(coldpreview).height) ELSE None,
     primary_filename |-> Some(file.name),
     taken_at |-> metadata.taken_at,
     width |-> metadata.width,
     height |-> metadata.height,
     camera_make |-> metadata.camera_make,
     camera_model |-> metadata.camera_model,
     gps_latitude |-> metadata.gps_latitude,
     gps_longitude |-> metadata.gps_longitude,
     has_gps |-> IsSome(metadata.gps_latitude),
     iso |-> camera_settings.iso,
     aperture |-> camera_settings.aperture,
     shutter_speed |-> camera_settings.shutter_speed,
     focal_length |-> camera_settings.focal_length,
     lens_model |-> camera_settings.lens_model,
     lens_make |-> camera_settings.lens_make]

Event(ev, ok) == [ev |-> ev, item |-> i, ok |-> ok]
\* the loop variable "path" of line 178 (image_path in process_image),
\* and a loop that keeps processing the first path
CurrentFile_First == paths[1]
CurrentFile == paths[i]

\* "return result" of process_image: to the caller of the entry point,
\* or into the loop body of batch_process
PIReturn(result) ==
    /\ loc' = [loc EXCEPT !.result = Some(result)]
    /\ IF entry = "batch_process"
       THEN pc' = "bp_append" /\ UNCHANGED outcome
       ELSE pc' = "done" /\ outcome' = [status |-> "returned", value |-> <<result>>]

\* an exception leaves process_image, and batch_process with it
PIRaise(exc) ==
    /\ pc' = "raised"
    /\ outcome' = [status |-> "raised", value |-> <<exc>>]
    /\ UNCHANGED loc

\* lines 56-61
PI_CheckSize ==
    /\ pc = "pi_size"
    /\ IF TooSmallSize(coldpreview_size)
       THEN PIReturn(Failure(SizeError(Get(coldpreview_size))))
       ELSE pc' = "pi_validate" /\ UNCHANGED <<loc, outcome>>
    /\ UNCHANGED <<entry, paths, coldpreview_size, has_callback, i, results,
                   cb_log, calls>>

\* validation whose failure does not end the call
PI_Validate_NoReturn ==
    /\ pc = "pi_validate"
    /\ LET v == validate_file(CurrentFile)
       IN  /\ calls' = Append(calls, Event("validate_file",
                                           v.status = "returned" /\ v.valid))
           /\ IF v.status = "raised" THEN PIRaise(Get(v.exc))
              ELSE pc' = "pi_basic" /\ UNCHANGED <<loc, outcome>>
    /\ UNCHANGED <<entry, paths, coldpreview_size, has_callback, i, results, cb_log>>

\* lines 63-66
PI_Validate ==
    /\ pc = "pi_validate"
    /\ LET v == validate_file(CurrentFile)
       IN  /\ calls' = Append(calls, Event("validate_file",
                                           v.status = "returned" /\ v.valid))
           /\ IF v.status = "raised" THEN PIRaise(Get(v.exc))
              ELSE IF ~v.valid THEN PIReturn(Failure(Get(v.reason)))
              ELSE pc' = "pi_basic" /\ UNCHANGED <<loc, outcome>>
    /\ UNCHANGED <<entry, paths, coldpreview_size, has_callback, i, results, cb_log>>

\* line 70
PI_ExtractBasic ==
    /\ pc = "pi_basic"
    /\ loc' = [loc EXCEPT !.metadata = Some(extract_basic(CurrentFile))]
    /\ calls' = Append(calls, Event("extract_basic", TRUE))
    /\ pc' = "pi_settings"
    /\ UNCHANGED <<entry, paths, coldpreview_size, has_callback, i, results,
                   cb_log, outcome>>

\* line 71
PI_ExtractSettings ==
    /\ pc = "pi_settings"
    /\ loc' = [loc EXCEPT !.camera_settings =
                              Some(extract_camera_settings(CurrentFile))]
    /\ calls' = Append(calls, Event("extract_camera_settings", TRUE))
    /\ pc' = "pi_hot"
    /\ UNCHANGED <<entry, paths, coldpreview_size, has_callback, i, results,
                   cb_log, outcome>>

\* the except clause keeping what was extracted before the failure
ProcessingFailed_Partial(exc) ==
    ImportResult(FALSE, None, None, loc.metadata, loc.camera_settings, None,
                 None, Some(Reason("Processing failed", exc)))
ProcessingFailed(exc) == Failure(Reason("Processing failed", exc))

\* line 74, and the except clause of lines 128-132 when it raises
PI_Hot ==
    /\ pc = "pi_hot"
    /\ LET h == generate_hotpreview(CurrentFile, DEFAULT_HOT_SIZE, HOT_QUALITY)
       IN  /\ calls' = Append(calls, Event("generate_hotpreview", h.ok))
           /\ IF h.ok
              THEN /\ loc' = [loc EXCEPT !.hotpreview = h.x]
                   /\ pc' = "pi_cold"
                   /\ UNCHANGED outcome
              ELSE PIReturn(ProcessingFailed(h.exc))
    /\ UNCHANGED <<entry, paths, coldpreview_size, has_callback, i, results, cb_log>>

\* a coldpreview failure that is swallowed: the call goes on without one
PI_Cold_Swallow ==
    /\ pc = "pi_cold"
    /\ IF IsSome(coldpreview_size)
       THEN LET c == generate_coldpreview(CurrentFile, Get(coldpreview_size),
                                          COLD_QUALITY)
            IN  /\ calls' = Append(calls, Event("generate_coldpreview", c.ok))
                /\ loc' = [loc EXCEPT !.coldpreview = c.x]
       ELSE /\ loc' = [loc EXCEPT !.coldpreview = None]
            /\ UNCHANGED calls
    /\ pc' = "pi_build"
    /\ UNCHANGED <<entry, paths, coldpreview_size, has_callback, i, results,
                   cb_log, outcome>>

\* lines 76-90, and the except clause when the generation raises
PI_Cold ==
    /\ pc = "pi_cold"
    /\ IF IsSome(coldpreview_size)
       THEN LET c == generate_coldpreview(CurrentFile, Get(coldpreview_size),
                                          COLD_QUALITY)
            IN  /\ calls' = Append(calls, Event("generate_coldpreview", c.ok))
                /\ IF c.ok
                   THEN /\ loc' = [loc EXCEPT !.coldpreview = c.x]
                        /\ pc' = "pi_build"
                        /\ UNCHANGED outcome
                   ELSE PIReturn(ProcessingFailed(c.exc))
       ELSE /\ loc' = [loc EXCEPT !.coldpreview = None]
            /\ pc' = "pi_build"
            /\ UNCHANGED <<calls, outcome>>
    /\ UNCHANGED <<entry, paths, coldpreview_size, has_callback, i, results, cb_log>>

\* lines 92-126
PI_Build ==
    /\ pc = "pi_build"
    /\ LET hotpreview == Get(loc.hotpreview)
           photo == CorePhoto(CurrentFile, Get(loc.metadata),
                              Get(loc.camera_settings), hotpreview, loc.coldpreview)
       IN  PIReturn(ImportResult(TRUE, hotpreview.hothash, Some(photo),
                                 loc.metadata, loc.camera_settings,
                                 Some(hotpreview.base64),
                                 IF IsSome(loc.coldpreview)
                                 THEN Some(Get(loc.coldpreview).bytes) ELSE None,
                                 None))
    /\ UNCHANGED <<entry, paths, coldpreview_size, has_callback, i, results,
                   cb_log, calls>>

\* lines 175-178: the head of the for loop; the loop body starts a
\* process_image call with a fresh frame, or the loop ends (line 185)
BP_Loop ==
    /\ pc = "bp_loop"
    /\ IF i < Len(paths)
       THEN /\ i' = i + 1
            /\ loc' = EmptyLoc
            /\ pc' = "pi_size"
            /\ UNCHANGED outcome
       ELSE /\ pc' = "done"
            /\ outcome' = [status |-> "returned", value |-> results]
            /\ UNCHANGED <<i, loc>>
    /\ UNCHANGED <<entry, paths, coldpreview_size, has_callback, results,
                   cb_log, calls>>

\* line 180
BP_Append ==
    /\ pc = "bp_append"
    /\ results' = Append(results, Get(loc.result))
    /\ calls' = Append(calls, Event("append", TRUE))
    /\ pc' = IF has_callback THEN "bp_callback" ELSE "bp_loop"
    /\ UNCHANGED <<entry, paths, coldpreview_size, has_callback, i, cb_log,
                   loc, outcome>>

\* lines 182-183: progress_callback(i, total, result)
BP_Callback ==
    /\ pc = "bp_callback"
    /\ cb_log' = Append(cb_log, [current |-> i, total |-> Len(paths),
                                 result |-> Get(loc.result),
                                 appended |-> Len(results)])
    /\ calls' = Append(calls, Event("progress_callback", TRUE))
    /\ pc' = "bp_loop"
    /\ UNCHANGED <<entry, paths, coldpreview_size, has_callback, i, results,
                   loc, outcome>>

(***************************************************************************)
(* POST /v1/process (service/main.py).  The upload is paths[1].            *)
(***************************************************************************)
Http(code, detail, body) ==
    [status |-> "http", value |-> <<[code |-> code, detail |-> detail, body |-> body]>>]

\* an exception inside the try block of lines 147-238, HTTPException
\* included, ends in the handler of line 234
EPFailed(exc) ==
    /\ pc' = "done"
    /\ outcome' = Http(400, Some(Reason("Processing failed", exc)), None)

\* lines 140-145
EP_CheckSize ==
    /\ pc = "ep_size"
    /\ IF TooSmallSize(coldpreview_size)
       THEN /\ pc' = "done"
            /\ outcome' = Http(400, Some(SizeError(Get(coldpreview_size))), None)
       ELSE pc' = "ep_read" /\ UNCHANGED outcome
    /\ UNCHANGED <<entry, paths, coldpreview_size, has_callback, i, results,
                   cb_log, calls, loc>>

\* line 149
EP_Read ==
    /\ pc = "ep_read"
    /\ calls' = Append(calls, Event("file.read", TRUE))
    /\ pc' = "ep_verify"
    /\ UNCHANGED <<entry, paths, coldpreview_size, has_callback, i, results,
                   cb_log, loc, outcome>>

\* lines 151-166
EP_Verify ==
    /\ pc = "ep_verify"
    /\ calls' = Append(calls, Event("Image.open", CurrentFile.opens))
    /\ IF ~CurrentFile.opens
       THEN EPFailed("400: Invalid image file")
       ELSE pc' = "ep_extract" /\ UNCHANGED outcome
    /\ UNCHANGED <<entry, paths, coldpreview_size, has_callback, i, results,
                   cb_log, loc>>

\* lines 168-170
EP_Extract ==
    /\ pc = "ep_extract"
    /\ loc' = [loc EXCEPT
                 !.metadata = Some(extract_basic_from_bytes(CurrentFile)),
                 !.camera_settings = Some(extract_camera_settings_from_bytes(CurrentFile))]
    /\ calls' = Append(calls, Event("extract_from_bytes", TRUE))
    /\ pc' = "ep_hot"
    /\ UNCHANGED <<entry, paths, coldpreview_size, has_callback, i, results,
                   cb_log, outcome>>

\* lines 172-180
EP_Hot ==
    /\ pc = "ep_hot"
    /\ LET h == generate_hotpreview_from_image(CurrentFile, DEFAULT_HOT_SIZE,
                                               HOT_QUALITY)
       IN  /\ calls' = Append(calls, Event("generate_hotpreview", h.ok))
           /\ IF h.ok
              THEN /\ loc' = [loc EXCEPT !.hotpreview = h.x]
                   /\ pc' = "ep_cold"
                   /\ UNCHANGED outcome
              ELSE EPFailed(h.exc) /\ UNCHANGED loc
    /\ UNCHANGED <<entry, paths, coldpreview_size, has_callback, i, results, cb_log>>

\* lines 182-201
EP_Cold ==
    /\ pc = "ep_cold"
    /\ IF IsSome(coldpreview_size)
       THEN LET c == generate_coldpreview_from_image(CurrentFile,
                         Get(coldpreview_size), COLD_QUALITY)
            IN  /\ calls' = Append(calls, Event("generate_coldpreview", c.ok))
                /\ IF c.ok
                   THEN /\ loc' = [loc EXCEPT !.coldpreview = c.x]
                        /\ pc' = "ep_respond"
                        /\ UNCHANGED outcome
                   ELSE EPFailed(c.exc) /\ UNCHANGED loc
       ELSE /\ loc' = [loc EXCEPT !.coldpreview = None]
            /\ pc' = "ep_respond"
            /\ UNCHANGED <<calls, outcome>>
    /\ UNCHANGED <<entry, paths, coldpreview_size, has_callback, i, results, cb_log>>

\* lines 203-232.  CorePhoto.to_dict calls taken_at.isoformat() on a
\* truthy taken_at, which for the string process_image stores raises
\* AttributeError; PhotoEggResponse needs width and height to be integers.
EP_Respond ==
    /\ pc = "ep_respond"
    /\ LET photo == CorePhoto(CurrentFile, Get(loc.metadata),
                              Get(loc.camera_settings), Get(loc.hotpreview),
                              loc.coldpreview)
       IN  IF IsSome(photo.taken_at) /\ ValTruthy(Get(photo.taken_at))
           THEN EPFailed("AttributeError: isoformat")
           ELSE IF IsNone(photo.width) \/ IsNone(photo.height)
           THEN EPFailed("ValidationError")
           ELSE pc' = "done" /\ outcome' = Http(200, None, Some(photo))
    /\ UNCHANGED <<entry, paths, coldpreview_size, has_callback, i, results,
                   cb_log, calls, loc>>

NoOutcome == [status |-> "running", value |-> <<>>]

InitProcess ==
    /\ entry = "process_image"
    /\ paths \in {<<f>> : f \in Files}
    /\ coldpreview_size \in ColdSizes
    /\ has_callback = FALSE
    /\ pc = "pi_size"
    /\ i = 1

InitBatch ==
    /\ entry = "batch_process"
    /\ paths \in SeqsUpTo(Files, MaxBatch)
    /\ coldpreview_size \in ColdSizes
    /\ has_callback \in BOOLEAN
    /\ pc = "bp_loop"
    /\ i = 0

InitEndpoint ==
    /\ entry = "endpoint"
    /\ paths \in {<<f>> : f \in Files}
    /\ coldpreview_size \in ColdSizes
    /\ has_callback = FALSE
    /\ pc = "ep_size"
    /\ i = 1

Init ==
    /\ InitProcess \/ InitBatch \/ InitEndpoint
    /\ results = <<>>
    /\ cb_log = <<>>
    /\ calls = <<>>
    /\ loc = EmptyLoc
    /\ outcome = NoOutcome

Next ==
    \/ PI_CheckSize
    \/ PI_Validate
    \/ PI_ExtractBasic
    \/ PI_ExtractSettings
    \/ PI_Hot
    \/ PI_Cold
    \/ PI_Build
    \/ BP_Loop
    \/ BP_Append
    \/ BP_Callback
    \/ EP_CheckSize
    \/ EP_Read
    \/ EP_Verify
    \/ EP_Extract
    \/ EP_Hot
    \/ EP_Cold
    \/ EP_Respond

Spec == Init /\ [][Next]_vars

(***************************************************************************)
(* process_image as a function of its arguments: what one call on its own  *)
(* gives, a returned ImportResult or the exception that leaves it          *)
(***************************************************************************)
Returned(r) == [status |-> "returned", value |-> <<r>>]
Raised(exc) == [status |-> "raised", value |-> <<exc>>]

ProcessImage(file, size) ==
    IF TooSmallSize(size) THEN Returned(Failure(SizeError(Get(size))))
    ELSE LET v == validate_file(file)
         IN
    IF v.status = "raised" THEN Raised(Get(v.exc))
    ELSE IF ~v.valid THEN Returned(Failure(Get(v.reason)))
    ELSE LET metadata == extract_basic(file)
             camera_settings == extract_camera_settings(file)
             h == generate_hotpreview(file, DEFAULT_HOT_SIZE, HOT_QUALITY)
             c == IF IsSome(size)
                  THEN generate_coldpreview(file, Get(size), COLD_QUALITY)
                  ELSE [ok |-> TRUE, x |-> None, exc |-> ""]
         IN
    IF ~h.ok THEN Returned(ProcessingFailed(h.exc))
    ELSE IF ~c.ok THEN Returned(ProcessingFailed(c.exc))
    ELSE Returned(ImportResult(TRUE, Get(h.x).hothash,
                     Some(CorePhoto(file, metadata, camera_settings, Get(h.x), c.x)),
                     Some(metadata), Some(camera_settings),
                     Some(Get(h.x).base64),
                     IF IsSome(c.x) THEN Some(Get(c.x).bytes) ELSE None,
                     None))

(***************************************************************************)
(* Properties                                                              *)
(***************************************************************************)
InProcessImage == entry \in {"process_image", "batch_process"}
Finished == pc \in {"done", "raised"}

\* the result process_image has returned for item k, if any
ItemResult(k) ==
    IF k <= Len(results) THEN Some(results[k])
    ELSE IF k = i THEN loc.result
    ELSE None

\* every ImportResult process_image has returned so far
ReturnedResults ==
    {results[k] : k \in 1..Len(results)}
        \cup {cb_log[k].result : k \in 1..Len(cb_log)}
        \cup (IF IsSome(loc.result) THEN {Get(loc.result)} ELSE {})

SuccessShape(r) ==
    /\ r.success
    /\ IsSome(r.hothash) /\ IsSome(r.photo) /\ IsSome(r.metadata)
    /\ IsSome(r.camera_settings) /\ IsSome(r.hotpreview_base64)
    /\ IsNone(r.error)

FailureShape(r) ==
    /\ ~r.success
    /\ IsSome(r.error) /\ Get(r.error).msg # ""
    /\ IsNone(r.hothash) /\ IsNone(r.photo) /\ IsNone(r.metadata)
    /\ IsNone(r.camera_settings) /\ IsNone(r.hotpreview_base64)
    /\ IsNone(r.coldpreview_bytes)

\* C1: every ImportResult returned by process_image is either a complete
\* success record without error, or a failure with a non-empty error and
\* none of hothash, photo, metadata, camera_settings, hotpreview_base64,
\* coldpreview_bytes.
C1_ResultShape ==
    InProcessImage =>
        \A r \in ReturnedResults : SuccessShape(r) \/ FailureShape(r)

\* a batch that has returned with a success and a failure among its results
C1_Witness ==
    /\ entry = "batch_process" /\ pc = "done"
    /\ \E a, b \in 1..Len(results) :
          /\ results[a].success
          /\ ~results[b].success


ProcessingSteps ==
    {"extract_basic", "extract_camera_settings", "generate_hotpreview",
     "generate_coldpreview"}

\* C2: in process_image no metadata-extraction and no preview-generation
\* step runs unless validate_file has returned valid for that path before;
\* when validate_file returns invalid, nothing else is done for the path and
\* the call returns success=false with exactly the validator's reason.
C2_ValidateFirst ==
    InProcessImage =>
        \A k \in 1..Len(calls) :
            /\ calls[k].ev \in ProcessingSteps =>
                  \E j \in 1..(k - 1) :
                      /\ calls[j].ev = "validate_file"
                      /\ calls[j].item = calls[k].item
                      /\ calls[j].ok
            /\ (calls[k].ev = "validate_file" /\ ~calls[k].ok
                /\ validate_file(paths[calls[k].item]).status = "returned") =>
                  /\ \A j \in (k + 1)..Len(calls) :
                        calls[j].item = calls[k].item => calls[j].ev \notin ProcessingSteps
                  /\ ItemResult(calls[k].item) =
                        Some(Failure(Get(validate_file(paths[calls[k].item]).reason)))

\* a call that validated its file and went on to the previews, in a batch
\* whose earlier item failed validation
C2_Witness ==
    /\ entry = "batch_process" /\ i = 2
    /\ ~results[1].success
    /\ \E k \in 1..Len(calls) :
          calls[k].item = 2 /\ calls[k].ev = "generate_hotpreview"

\* C3: for every path and every coldpreview_size process_image ends by
\* returning an ImportResult and never raises; every failure is reported as
\* success=false with a reason.
C3_NeverRaises ==
    (entry = "process_image" /\ Finished) =>
        /\ outcome.status = "returned"
        /\ LET r == outcome.value[1]
           IN  r.success \/ IsSome(r.error)

\* C4: batch_process completes and returns exactly one result per input
\* path, in input order, however many images failed.
C4_BatchCompletes ==
    (entry = "batch_process" /\ Finished) =>
        /\ outcome.status = "returned"
        /\ Len(outcome.value) = Len(paths)
        /\ \A k \in 1..Len(paths) :
              Returned(outcome.value[k]) = ProcessImage(paths[k], coldpreview_size)

\* C5: batch_process is process_image applied to each path on its own, in
\* order: every result it has collected is the result of
\* process_image(paths[k], size), a nonexistent path gives success=false,
\* and the batch ends by an exception only with the exception that
\* process_image raises for the path at which it stopped.
C5_BatchIsMap ==
    entry = "batch_process" =>
        /\ \A k \in 1..Len(results) :
              /\ Returned(results[k]) = ProcessImage(paths[k], coldpreview_size)
              /\ paths[k].probe = "missing" => ~results[k].success
        /\ pc = "done" => outcome.value = results /\ Len(results) = Len(paths)
        /\ pc = "raised" =>
              /\ outcome = ProcessImage(paths[i], coldpreview_size)
              /\ Len(results) = i - 1

\* a returned batch of two different files, the first of which failed
C5_Witness ==
    /\ entry = "batch_process" /\ pc = "done"
    /\ Len(paths) = 2 /\ paths[1] # paths[2]
    /\ paths[1].probe = "missing"
    /\ results[2].success

\* C6: with a progress callback, batch_process calls it exactly once per
\* input, in input order, with (k, N, result k), after result k has been
\* appended and before item k + 1 starts; never for an empty list.
C6_CallbackPerInput ==
    (entry = "batch_process" /\ has_callback) =>
        /\ \A k \in 1..Len(cb_log) :
              /\ cb_log[k].current = k
              /\ cb_log[k].total = Len(paths)
              /\ cb_log[k].appended = k
              /\ cb_log[k].result = results[k]
        /\ \A k \in 1..Len(calls) :
              calls[k].ev = "progress_callback" =>
                  /\ k > 1 /\ calls[k - 1] = [calls[k] EXCEPT !.ev = "append"]
                  /\ \A j \in (k + 1)..Len(calls) : calls[j].item > calls[k].item
        /\ Finished => Len(cb_log) = Len(paths)

\* C7: in a successful result the coldpreview fields follow the request:
\* without coldpreview_size all four are None while hotpreview and hothash
\* are present, with a coldpreview_size >= 150 all four are present; and a
\* requested coldpreview whose generation fails makes the call
\* success=false.
C7_ColdAllOrNothing ==
    InProcessImage =>
        /\ \A r \in ReturnedResults :
              r.success =>
                  LET photo == Get(r.photo)
                      cold == <<photo.coldpreview_base64, photo.coldpreview_width,
                                photo.coldpreview_height, r.coldpreview_bytes>>
                  IN  /\ IsNone(coldpreview_size) =>
                            /\ \A n \in 1..4 : cold[n] = None
                            /\ IsSome(r.hotpreview_base64)
                            /\ IsSome(photo.hotpreview_base64)
                            /\ IsSome(photo.hothash) /\ IsSome(r.hothash)
                      /\ (IsSome(coldpreview_size) /\ Get(coldpreview_size) >= 150) =>
                            \A n \in 1..4 : IsSome(cold[n])
        /\ \A k \in 1..Len(calls) :
              (calls[k].ev = "generate_coldpreview" /\ ~calls[k].ok
               /\ IsSome(ItemResult(calls[k].item))) =>
                  ~Get(ItemResult(calls[k].item)).success

\* a call that asked for a coldpreview whose generation failed after the
\* hotpreview had been made
C7_Witness ==
    /\ entry = "process_image" /\ pc = "done"
    /\ coldpreview_size = Some(1920)
    /\ \E k \in 1..Len(calls) : calls[k].ev = "generate_coldpreview" /\ ~calls[k].ok
    /\ \E k \in 1..Len(calls) : calls[k].ev = "generate_hotpreview" /\ calls[k].ok

ValidatorSizes == {0, 1, MAX_FILE_SIZE, MAX_FILE_SIZE + 1}
ValidatorSuffixes == {".jpg", ".JPG", ".nef", ".TXT", ""}
ValidatorDims == {99, 100, 50000, 50001}

ValidatorFiles ==
    { [GoodFile EXCEPT !.probe = p, !.is_file = f, !.stat_ok = st, !.size = sz,
                       !.suffix = sx, !.opens = o, !.w = w, !.h = h,
                       !.open_error = "cannot identify image file"] :
        p \in {"ok", "missing", "oserror"}, f \in BOOLEAN, st \in BOOLEAN,
        sz \in ValidatorSizes, sx \in ValidatorSuffixes, o \in BOOLEAN,
        w \in ValidatorDims, h \in ValidatorDims }

InitValidate ==
    /\ entry = "validate_file"
    /\ paths \in {<<f>> : f \in ValidatorFiles}
    /\ coldpreview_size = None
    /\ has_callback = FALSE
    /\ pc = "vf_call"
    /\ i = 1
    /\ results = <<>>
    /\ cb_log = <<>>
    /\ calls = <<>>
    /\ loc = EmptyLoc
    /\ outcome = NoOutcome

\* is_valid, error = ImageValidator.validate_file(path)
VF_Call ==
    /\ pc = "vf_call"
    /\ outcome' = validate_file(CurrentFile)
    /\ pc' = "done"
    /\ UNCHANGED <<entry, paths, coldpreview_size, has_callback, i, results,
                   cb_log, calls, loc>>

NextValidate == VF_Call

SpecValidate == InitValidate /\ [][NextValidate]_vars

\* the checks of the gate in the order of the claim
GateFails(n, f) ==
    CASE n = 1 -> f.probe = "missing"
      [] n = 2 -> ~f.is_file
      [] n = 3 -> ~f.stat_ok \/ f.size > 500 * 1024 * 1024
      [] n = 4 -> f.size = 0
      [] n = 5 -> Lower(f.suffix) \notin SUPPORTED_EXTENSIONS
      [] n = 6 -> ~f.opens
      [] n = 7 -> f.w < 100 \/ f.h < 100
      [] OTHER -> f.w > 50000 \/ f.h > 50000

GateReason(n, f) ==
    CASE n = 1 -> "File not found"
      [] n = 2 -> "Not a file"
      [] n = 3 -> IF f.stat_ok THEN "File too large" ELSE "Cannot access file"
      [] n = 4 -> "File is empty"
      [] n = 5 -> "Unsupported format"
      [] n = 6 -> "Cannot open image"
      [] n = 7 -> "Image too small"
      [] OTHER -> "Image too large"

\* the probes of the file made when check n is the last one performed
GateProbes(n) ==
    CASE n = 1 -> <<"exists">>
      [] n = 2 -> <<"exists", "is_file">>
      [] n \in {3, 4} -> <<"exists", "is_file", "stat">>
      [] n = 5 -> <<"exists", "is_file", "stat", "is_supported">>
      [] n = 6 -> <<"exists", "is_file", "stat", "is_supported", "Image.open">>
      [] OTHER -> <<"exists", "is_file", "stat", "is_supported", "Image.open",
                    "img.size">>

\* C9: validate_file is a short-circuiting gate over the checks existence,
\* regular file, size <= 500 MiB, size > 0, supported extension, container
\* opens, dimensions >= 100x100, dimensions <= 50000x50000: it returns the
\* reason of the earliest failing check, performs no later check, and
\* returns (True, None) exactly when no check fails.
C9_SequentialGate ==
    (entry = "validate_file" /\ pc = "done" /\ outcome.status = "returned") =>
        LET f == paths[1]
            failing == {n \in 1..8 : GateFails(n, f)}
        IN  IF failing = {}
            THEN /\ outcome.valid /\ outcome.reason = None
                 /\ outcome.ops = GateProbes(8)
            ELSE LET first == CHOOSE n \in failing : \A m \in failing : n <= m
                 IN  /\ ~outcome.valid
                     /\ IsSome(outcome.reason)
                     /\ Get(outcome.reason).msg = GateReason(first, f)
                     /\ outcome.ops = GateProbes(first)

\* an empty file with an unsupported extension that is no image either:
\* the reason is that of the size check
C9_Witness ==
    /\ entry = "validate_file" /\ pc = "done"
    /\ paths[1].size = 0 /\ paths[1].suffix = ".TXT" /\ ~paths[1].opens
    /\ paths[1].w = 99
    /\ outcome.status = "returned"
    /\ Get(outcome.reason).msg = "File is empty"


(***************************************************************************)
(* extract_basic and extract_basic_from_bytes on their own, over the       *)
(* contents of the GPS sub-directory                                       *)
(***************************************************************************)
\* degrees: numbers on and around the range limits, NaN (a rational with
\* denominator 0), (n, d) tuples and a text
DegreeComponents ==
    {Num(0, 1), Num(90, 1), Num(180, 1), Num(1, 0), Tup(45, 1), Tup(1, 0), Str}
MinuteComponents == {Num(0, 1), Num(30, 1), Str}

GpsCoords ==
    {NoTag, SeqTag(<<>>), ScalarTag(Num(45, 1)), ScalarTag(Num(0, 1))}
        \cup {SeqTag(<<d>>) : d \in DegreeComponents}
        \cup {SeqTag(<<d, m>>) : d \in DegreeComponents, m \in MinuteComponents}
        \cup {SeqTag(<<d, m, sec>>) : d \in DegreeComponents,
                                      m \in MinuteComponents,
                                      sec \in MinuteComponents}

GpsDirectories ==
    { [TuscanyGps EXCEPT !.lat = la, !.lat_ref = lar, !.lon = lo, !.lon_ref = lor,
                         !.alt = al] :
        la \in GpsCoords, lar \in {"N", "S"}, lo \in GpsCoords,
        lor \in {"E", "W"}, al \in {NoTag, ScalarTag(Tup(1, 0))} }

InitGps ==
    /\ entry \in {"extract_basic", "extract_basic_from_bytes"}
    /\ paths \in {<<[GoodFile EXCEPT !.exif.gps = g]>> : g \in GpsDirectories}
    /\ coldpreview_size = None
    /\ has_callback = FALSE
    /\ pc = "eb_call"
    /\ i = 1
    /\ results = <<>>
    /\ cb_log = <<>>
    /\ calls = <<>>
    /\ loc = EmptyLoc
    /\ outcome = NoOutcome

\* extract_basic with Image.open outside its try block
EB_Call_Unguarded ==
    /\ pc = "eb_call"
    /\ entry = "extract_basic"
    /\ outcome' = IF CurrentFile.opens THEN Returned(extract_basic(CurrentFile))
                  ELSE Raised(CurrentFile.open_error)
    /\ pc' = "done"
    /\ UNCHANGED <<entry, paths, coldpreview_size, has_callback, i, results,
                   cb_log, calls, loc>>

\* metadata = ExifExtractor.extract_basic(path)
EB_Call ==
    /\ pc = "eb_call"
    /\ entry = "extract_basic"
    /\ outcome' = Returned(extract_basic(CurrentFile))
    /\ pc' = "done"
    /\ UNCHANGED <<entry, paths, coldpreview_size, has_callback, i, results,
                   cb_log, calls, loc>>

\* metadata = ExifExtractor.extract_basic_from_bytes(image_bytes)
EBB_Call ==
    /\ pc = "eb_call"
    /\ entry = "extract_basic_from_bytes"
    /\ outcome' = Returned(extract_basic_from_bytes(CurrentFile))
    /\ pc' = "done"
    /\ UNCHANGED <<entry, paths, coldpreview_size, has_callback, i, results,
                   cb_log, calls, loc>>

NextGps == EB_Call \/ EBB_Call

SpecGps == InitGps /\ [][NextGps]_vars

\* C10: whatever the GPS sub-directory holds, the returned BasicMetadata
\* has gps_latitude and gps_longitude both present or both absent, and a
\* present pair has latitude in [-90, 90], longitude in [-180, 180] and is
\* not (0, 0).
C10_GpsPair ==
    (entry \in {"extract_basic", "extract_basic_from_bytes"} /\ pc = "done") =>
        LET m == outcome.value[1]
            lat == m.gps_latitude
            lon == m.gps_longitude
        IN  /\ IsSome(lat) <=> IsSome(lon)
            /\ (IsSome(lat) /\ IsSome(lon)) =>
                  /\ RLe(RInt(-90), Get(lat)) /\ RLe(Get(lat), RInt(90))
                  /\ RLe(RInt(-180), Get(lon)) /\ RLe(Get(lon), RInt(180))
                  /\ ~(REq(Get(lat), RInt(0)) /\ REq(Get(lon), RInt(0)))


(***************************************************************************)
(* ExifExtractor._convert_to_decimal on its own, over coordinate values of *)
(* zero to four components and every hemisphere reference                  *)
(***************************************************************************)
\* plain numbers and (numerator, denominator) tuples, a rational with
\* denominator 0, and a text
DecimalComponents ==
    {Num(0, 1), Num(43, 1), Num(28128, 10000), Tup(28, 1), Tup(64572, 10000),
     Tup(1, 0), Str}

DecimalCoords ==
    {NoTag, SeqTag(<<>>), ScalarTag(Num(43, 1))}
        \cup {SeqTag(<<a>>) : a \in DecimalComponents}
        \cup {SeqTag(<<a, b>>) : a \in DecimalComponents, b \in DecimalComponents}
        \cup {SeqTag(<<a, b, c>>) : a \in DecimalComponents,
                                    b \in DecimalComponents,
                                    c \in DecimalComponents}
        \cup {SeqTag(<<a, b, c, Num(7, 1)>>) : a \in DecimalComponents,
                                               b \in DecimalComponents,
                                               c \in DecimalComponents}

\* "" stands for a reference tag that is missing (gps_ifd.get gives None)
DecimalRefs == {"N", "S", "E", "W", ""}

InitDecimal ==
    /\ entry = "_convert_to_decimal"
    /\ paths \in {<<[coord_tuple |-> c, ref |-> r]>> :
                      c \in DecimalCoords, r \in DecimalRefs}
    /\ coldpreview_size = None
    /\ has_callback = FALSE
    /\ pc = "cd_call"
    /\ i = 1
    /\ results = <<>>
    /\ cb_log = <<>>
    /\ calls = <<>>
    /\ loc = EmptyLoc
    /\ outcome = NoOutcome

\* decimal = ExifExtractor._convert_to_decimal(coord_tuple, ref)
CD_Call ==
    /\ pc = "cd_call"
    /\ outcome' = Returned(_convert_to_decimal(paths[1].coord_tuple, paths[1].ref))
    /\ pc' = "done"
    /\ UNCHANGED <<entry, paths, coldpreview_size, has_callback, i, results,
                   cb_log, calls, loc>>

NextDecimal == CD_Call

SpecDecimal == InitDecimal /\ [][NextDecimal]_vars

\* a component that is a number: a plain number or a (numerator,
\* denominator) rational with a denominator that is not 0
WellFormed(c) == c.k \in {"num", "tuple"} /\ c.d # 0
\* the sum degrees + minutes/60 + seconds/3600 of the first components
DmsSum(t) ==
    LET val(k) == IF k <= Len(t) THEN Rat(t[k].n, t[k].d) ELSE RInt(0)
    IN  RAdd(val(1), RAdd(RDivInt(val(2), 60), RDivInt(val(3), 3600)))

\* C11: a triple of numbers converts to degrees + minutes/60 +
\* seconds/3600, a pair to degrees + minutes/60 and a single value to
\* itself, each component being a plain number or a (numerator,
\* denominator) rational; the result is negated exactly when the reference
\* is S or W.
C11_ConvertToDecimal ==
    (entry = "_convert_to_decimal" /\ pc = "done") =>
        LET t == paths[1].coord_tuple
            ref == paths[1].ref
        IN  (/\ t.k = "seq" /\ Len(t.v) \in 1..3
             /\ \A k \in 1..Len(t.v) : WellFormed(t.v[k]))
            => outcome.value[1] =
                  Some(IF ref \in {"S", "W"} THEN RNeg(DmsSum(t.v)) ELSE DmsSum(t.v))


(***************************************************************************)
(* The four extractors of ExifExtractor on their own, over sources that    *)
(* do not open, sources without EXIF and combinations of EXIF tag values   *)
(***************************************************************************)
ExtractMakes ==
    {None, Some(StrVal("")), Some(StrVal(" Canon ")), Some(StrVal("  ")),
     Some(IntVal("5"))}
ExtractModels == {None, Some(StrVal("")), Some(StrVal("EOS R5")), Some(IntVal("0"))}
ExtractDates ==
    {None, Some(StrVal("")), Some(StrVal("2024:07:15 14:30:00")),
     Some(StrVal("not a date"))}

\* sources that do not open: a path that does not exist and a file that is
\* no image
ClosedSources ==
    { [GoodFile EXCEPT !.name = "nonexistent.jpg", !.probe = "missing",
                       !.opens = FALSE, !.open_error = "No such file or directory"],
      [GoodFile EXCEPT !.name = "corrupt.jpg", !.opens = FALSE,
                       !.open_error = "cannot identify image file"] }

\* a source that opens and has no EXIF
BareSource ==
    [GoodFile EXCEPT !.name = "icon.Png", !.suffix = ".Png", !.w = 100, !.h = 100,
                     !.pixels = "B", !.exif = NoExif]

\* in_ifd0: the two capture dates are tags of the first IFD, else of the
\* Exif IFD
BasicSources ==
    { [GoodFile EXCEPT !.exif.make = mk, !.exif.model = md,
                       !.exif.dt_original = IF in_ifd0 THEN d1 ELSE None,
                       !.exif.dt_digitized = IF in_ifd0 THEN d2 ELSE None,
                       !.exif.exif_ifd.dt_original = IF in_ifd0 THEN None ELSE d1,
                       !.exif.exif_ifd.dt_digitized = IF in_ifd0 THEN None ELSE d2,
                       !.exif.dt = d3, !.exif.gps = g] :
        mk \in ExtractMakes, md \in ExtractModels, d1 \in ExtractDates,
        d2 \in {None, Some(StrVal("2022:12:31"))},
        d3 \in {None, Some(StrVal("2023:01:02 03:04:05"))},
        g \in {TuscanyGps, HalfGps}, in_ifd0 \in BOOLEAN }

\* ISO, FNumber, ExposureTime, FocalLength and Flash values, the three
\* label tags being present and well-formed
ValueSources ==
    { [GoodFile EXCEPT !.exif.iso = iso, !.exif.fnumber = fn,
                       !.exif.exposure = ex, !.exif.focal = fo,
                       !.exif.flash = fl] :
        iso \in {NoTag, ScalarTag(Num(400, 1)), ScalarTag(Str)},
        fn \in {NoTag, ScalarTag(Num(28, 10)), ScalarTag(Tup(28, 10)),
                ScalarTag(Tup(1, 0))},
        ex \in {NoTag, ScalarTag(Num(1, 250)), ScalarTag(Tup(1, 250)),
                ScalarTag(Num(2, 1)), ScalarTag(Tup(5, 2)), ScalarTag(Num(0, 1)),
                ScalarTag(Str), ScalarTag(Tup(1, 1)), ScalarTag(Tup(10, 2500)),
                ScalarTag(Num(3, 10))},
        fo \in {NoTag, ScalarTag(Num(50, 1)), ScalarTag(Tup(1, 0))},
        fl \in {NoTag, ScalarTag(Num(1, 1)), ScalarTag(Num(16, 1)), ScalarTag(Str)} }

\* Flash, ExposureProgram, MeteringMode and WhiteBalance values, the other
\* tags being present and well-formed
LabelSources ==
    { [GoodFile EXCEPT !.exif.flash = fl, !.exif.exposure_program = xp,
                       !.exif.metering_mode = mm, !.exif.white_balance = wb] :
        fl \in {NoTag, ScalarTag(Num(1, 1)), ScalarTag(Str)},
        xp \in {NoTag, ScalarTag(Str)} \cup {ScalarTag(Num(k, 1)) : k \in 0..9},
        mm \in {NoTag, ScalarTag(Num(255, 1))} \cup {ScalarTag(Num(k, 1)) : k \in 0..7},
        wb \in {NoTag, ScalarTag(Num(0, 1)), ScalarTag(Num(1, 1))} }

ExtractSources ==
    ClosedSources \cup {BareSource} \cup BasicSources \cup ValueSources
        \cup LabelSources

InitExtract ==
    /\ entry \in {"extract_basic", "extract_basic_from_bytes",
                  "extract_camera_settings", "extract_camera_settings_from_bytes"}
    /\ paths \in {<<f>> : f \in ExtractSources}
    /\ coldpreview_size = None
    /\ has_callback = FALSE
    /\ pc = "eb_call"
    /\ i = 1
    /\ results = <<>>
    /\ cb_log = <<>>
    /\ calls = <<>>
    /\ loc = EmptyLoc
    /\ outcome = NoOutcome

\* settings = ExifExtractor.extract_camera_settings(path)
ECS_Call ==
    /\ pc = "eb_call"
    /\ entry = "extract_camera_settings"
    /\ outcome' = Returned(extract_camera_settings(CurrentFile))
    /\ pc' = "done"
    /\ UNCHANGED <<entry, paths, coldpreview_size, has_callback, i, results,
                   cb_log, calls, loc>>

\* settings = ExifExtractor.extract_camera_settings_from_bytes(image_bytes)
ECSB_Call ==
    /\ pc = "eb_call"
    /\ entry = "extract_camera_settings_from_bytes"
    /\ outcome' = Returned(extract_camera_settings_from_bytes(CurrentFile))
    /\ pc' = "done"
    /\ UNCHANGED <<entry, paths, coldpreview_size, has_callback, i, results,
                   cb_log, calls, loc>>

NextExtract == EB_Call \/ EBB_Call \/ ECS_Call \/ ECSB_Call

SpecExtract == InitExtract /\ [][NextExtract]_vars

ExtractorDone ==
    /\ entry \in {"extract_basic", "extract_basic_from_bytes",
                  "extract_camera_settings", "extract_camera_settings_from_bytes"}
    /\ pc = "done"
BasicDone == ExtractorDone /\ entry \in {"extract_basic", "extract_basic_from_bytes"}
\* every field of a record is None
AllAbsent(r) == \A f \in DOMAIN r : r[f] = None

\* C12: the four extractors return a metadata object for every source and
\* never raise; for a source that does not open every field, width and
\* height included, is absent; for a source that opens and has no EXIF
\* only width and height are populated.
C12_ExtractorsTotal ==
    ExtractorDone =>
        LET f == paths[1]
            m == outcome.value[1]
        IN  /\ outcome.status = "returned"
            /\ ~f.opens => AllAbsent(m)
            /\ (f.opens /\ ~f.exif.present) =>
                  \A fld \in DOMAIN m :
                      IF BasicDone /\ fld = "width" THEN m[fld] = Some(f.w)
                      ELSE IF BasicDone /\ fld = "height" THEN m[fld] = Some(f.h)
                      ELSE m[fld] = None

\* extract_basic has answered for a path that does not exist
C12_Witness ==
    /\ entry = "extract_basic" /\ pc = "done"
    /\ paths[1].probe = "missing"
    /\ outcome.status = "returned"
    /\ AllAbsent(outcome.value[1])


\* a tag that is present and holds one number
NumberTag(tag) ==
    tag.k = "scalar" /\ tag.v[1].k \in {"num", "tuple"} /\ tag.v[1].d # 0
\* a tag that is present and holds one integer
IntegerTag(tag) == tag.k = "scalar" /\ tag.v[1].k = "num" /\ tag.v[1].d = 1

\* C13: in extract_camera_settings every field whose tag is present and
\* well-formed is populated, whatever the other tags hold: a read that
\* fails leaves only its own field absent.
C13_FieldsIndependent ==
    (entry = "extract_camera_settings" /\ pc = "done"
     /\ paths[1].opens /\ paths[1].exif.present) =>
        LET e == paths[1].exif
            m == outcome.value[1]
        IN  /\ NumberTag(e.iso) => IsSome(m.iso)
            /\ NumberTag(e.fnumber) => IsSome(m.aperture)
            /\ NumberTag(e.exposure) => IsSome(m.shutter_speed)
            /\ NumberTag(e.focal) => IsSome(m.focal_length)
            /\ IsSome(e.lens_model) => m.lens_model = e.lens_model
            /\ IsSome(e.lens_make) => m.lens_make = e.lens_make
            /\ IntegerTag(e.flash) => IsSome(m.flash)
            /\ IntegerTag(e.exposure_program) => IsSome(m.exposure_program)
            /\ IntegerTag(e.metering_mode) => IsSome(m.metering_mode)
            /\ IntegerTag(e.white_balance) => IsSome(m.white_balance)


\* C14: for a source that exists, the path form of each extractor returns
\* what its byte-buffer form returns on the bytes of the same source, field
\* by field, whatever the EXIF tags hold.
C14_PathEqualsBytes ==
    (pc = "done" /\ paths[1].probe = "ok") =>
        /\ entry = "extract_basic" =>
              outcome.value[1] = extract_basic_from_bytes(paths[1])
        /\ entry = "extract_camera_settings" =>
              outcome.value[1] = extract_camera_settings_from_bytes(paths[1])


(***************************************************************************)
(* PreviewGenerator.generate_hotpreview and generate_coldpreview on their  *)
(* own, over source dimensions, orientations and boxes                     *)
(***************************************************************************)
PreviewDims == {1, 2, 3, 4, 5, 99, 100, 149, 150, 151, 300, 1000, 4000}
PreviewOrientations == {1, 3, 6, 8}
HotBoxes == {<<150, 150>>, <<1, 1>>, <<100, 50>>, <<64, 200>>}
ColdMaxSizes == {1, 100, 150, 1920}

PreviewSources ==
    { [GoodFile EXCEPT !.w = w, !.h = h, !.exif.orientation = o] :
        w \in PreviewDims, h \in PreviewDims, o \in PreviewOrientations }
      \cup ClosedSources
      \cup { [GoodFile EXCEPT !.name = "truncated.jpg", !.load_ok = FALSE] }

InitPreview ==
    /\ entry = "PreviewGenerator"
    /\ paths \in {<<f>> : f \in PreviewSources}
    /\ coldpreview_size = None
    /\ has_callback = FALSE
    /\ pc = "pg_call"
    /\ i = 1
    /\ results = <<>>
    /\ cb_log = <<>>
    /\ calls = <<>>
    /\ loc = EmptyLoc
    /\ outcome = NoOutcome

\* what a call of a generator leaves: the preview, or the exception
PreviewOutcome(p) == IF p.ok THEN Returned(Get(p.x)) ELSE Raised(p.exc)

\* hotpreview = PreviewGenerator.generate_hotpreview(path, size)
GH_Call ==
    /\ pc = "pg_call"
    /\ \E size \in HotBoxes :
          /\ calls' = <<[call |-> "generate_hotpreview", size |-> size,
                         quality |-> HOT_QUALITY]>>
          /\ outcome' = PreviewOutcome(generate_hotpreview(CurrentFile, size,
                                                           HOT_QUALITY))
    /\ pc' = "done"
    /\ UNCHANGED <<entry, paths, coldpreview_size, has_callback, i, results,
                   cb_log, loc>>

\* coldpreview = PreviewGenerator.generate_coldpreview(path, max_size)
GC_Call ==
    /\ pc = "pg_call"
    /\ \E max_size \in ColdMaxSizes :
          /\ calls' = <<[call |-> "generate_coldpreview",
                         size |-> <<max_size, max_size>>,
                         quality |-> COLD_QUALITY]>>
          /\ outcome' = PreviewOutcome(generate_coldpreview(CurrentFile, max_size,
                                                            COLD_QUALITY))
    /\ pc' = "done"
    /\ UNCHANGED <<entry, paths, coldpreview_size, has_callback, i, results,
                   cb_log, loc>>

NextPreview == GH_Call \/ GC_Call

SpecPreview == InitPreview /\ [][NextPreview]_vars

\* a call of the named generator has come back
PreviewCalled(name) ==
    entry = "PreviewGenerator" /\ pc = "done" /\ calls[1].call = name
\* width and height of the source once its EXIF orientation is applied
CorrectedW ==
    IF paths[1].exif.present /\ paths[1].exif.orientation \in 5..8
    THEN paths[1].h ELSE paths[1].w
CorrectedH ==
    IF paths[1].exif.present /\ paths[1].exif.orientation \in 5..8
    THEN paths[1].w ELSE paths[1].h

\* C15: a hotpreview is no larger than its box and no larger than the
\* orientation-corrected raster W x H, is exactly W x H when that fits in
\* the box, has both sides at least 1, and has the ratio W/H up to the
\* rounding of one side to a whole pixel.
C15_HotDimensions ==
    (PreviewCalled("generate_hotpreview") /\ outcome.status = "returned") =>
        LET p == outcome.value[1]
            bw == calls[1].size[1]
            bh == calls[1].size[2]
            W == CorrectedW
            H == CorrectedH
            skew == IF p.width * H >= p.height * W
                    THEN p.width * H - p.height * W
                    ELSE p.height * W - p.width * H
        IN  /\ p.width <= bw /\ p.height <= bh
            /\ p.width <= W /\ p.height <= H
            /\ (W <= bw /\ H <= bh) => (p.width = W /\ p.height = H)
            /\ p.width >= 1 /\ p.height >= 1
            /\ skew < W \/ skew < H

\* a 4000 x 3000 source stored on its side: the preview is upright
C15_Witness ==
    /\ PreviewCalled("generate_hotpreview") /\ outcome.status = "returned"
    /\ paths[1].w = 4000 /\ paths[1].h = 300 /\ paths[1].exif.orientation = 6
    /\ calls[1].size = <<150, 150>>
    /\ outcome.value[1].width = 11 /\ outcome.value[1].height = 150

\* C16: a coldpreview has both sides at most max_size, and is exactly the
\* orientation-corrected raster W x H when that has both sides at most
\* max_size.
C16_ColdDimensions ==
    (PreviewCalled("generate_coldpreview") /\ outcome.status = "returned") =>
        LET p == outcome.value[1]
            m == calls[1].size[1]
        IN  /\ p.width <= m /\ p.height <= m
            /\ (CorrectedW <= m /\ CorrectedH <= m) =>
                  (p.width = CorrectedW /\ p.height = CorrectedH)

\* a 100 x 100 source with max_size 1920 stays 100 x 100
C16_Witness ==
    /\ PreviewCalled("generate_coldpreview") /\ outcome.status = "returned"
    /\ paths[1].w = 100 /\ paths[1].h = 100
    /\ calls[1].size = <<1920, 1920>>
    /\ outcome.value[1].width = 100 /\ outcome.value[1].height = 100


\* C19: a source whose orientation-corrected raster has a side below 4
\* pixels gets no preview from generate_hotpreview or generate_coldpreview:
\* the call ends with an error.
C19_TooSmallRejected ==
    (entry = "PreviewGenerator" /\ pc = "done" /\ paths[1].opens
     /\ (CorrectedW < MIN_RASTER \/ CorrectedH < MIN_RASTER)) =>
        outcome.status = "raised"

\* the file a returned record was made of (file names are unique in Files)
SourceOf(r) == CHOOSE f \in Files : Some(f.name) = Get(r.photo).primary_filename
\* base64 decoding
B64Decode(text) == text.b64

\* C17: in every successful result hothash equals photo.hothash, the two
\* hotpreview_base64 are the same, hothash is the SHA-256 of the bytes that
\* hotpreview_base64 decodes to, and it is the hothash the same file gets
\* without a coldpreview.
C17_HothashOfHotpreview ==
    InProcessImage =>
        \A r \in ReturnedResults :
            r.success =>
                /\ r.hothash = Get(r.photo).hothash
                /\ r.hotpreview_base64 = Get(r.photo).hotpreview_base64
                /\ Get(r.hothash) = Sha256Hex(B64Decode(Get(r.hotpreview_base64)))
                /\ r.hothash = ProcessImage(SourceOf(r), None).value[1].hothash

\* a success that carries a 1920 coldpreview
C17_Witness ==
    /\ entry = "process_image" /\ pc = "done"
    /\ coldpreview_size = Some(1920)
    /\ outcome.value[1].success
    /\ IsSome(outcome.value[1].coldpreview_bytes)
    /\ IsSome(outcome.value[1].hothash)


(***************************************************************************)
(* CorePhoto.to_dict and CorePhoto.from_dict (models/photo.py) on the      *)
(* records of successful process_image calls                               *)
(***************************************************************************)
\* a datetime object, as from_dict makes of an ISO text
DatetimeVal(s) == [t |-> "datetime", s |-> s]

\* CorePhoto.to_dict: asdict(self), then taken_at.isoformat() when taken_at
\* is truthy; a text has no isoformat
to_dict(photo) ==
    IF IsSome(photo.taken_at) /\ ValTruthy(Get(photo.taken_at))
    THEN IF Get(photo.taken_at).t = "datetime"
         THEN Returned([photo EXCEPT !.taken_at = Some(StrVal(Get(photo.taken_at).s))])
         ELSE Raised("AttributeError: 'str' object has no attribute 'isoformat'")
    ELSE Returned(photo)

\* datetime.fromisoformat on the texts of the model
FromIsoformat(s) ==
    IF s \in {"2024-07-15T14:30:00", "2023-01-02T03:04:05", "2022-12-31T00:00:00"}
    THEN Some(DatetimeVal(s)) ELSE None

\* CorePhoto.from_dict: a text taken_at is parsed, all else is passed on
from_dict(data) ==
    IF IsSome(data.taken_at) /\ Get(data.taken_at).t = "str"
    THEN [data EXCEPT !.taken_at = FromIsoformat(Get(data.taken_at).s)]
    ELSE data

\* the successful results of process_image over a set of sources
SuccessfulResults(sources) ==
    LET outs == {ProcessImage(f, size) : f \in sources, size \in {None, Some(150)}}
    IN  {o.value[1] : o \in {x \in outs : x.status = "returned" /\ x.value[1].success}}

InitRoundTrip ==
    /\ entry = "to_dict"
    /\ paths = <<>>
    /\ coldpreview_size = None
    /\ has_callback = FALSE
    /\ pc = "td_call"
    /\ i = 1
    /\ results = <<>>
    /\ cb_log = <<>>
    /\ calls = <<>>
    /\ loc \in {[EmptyLoc EXCEPT !.result = Some(r)] :
                   r \in SuccessfulResults(Files \cup BasicSources)}
    /\ outcome = NoOutcome

\* data = result.photo.to_dict()
TD_Call ==
    /\ pc = "td_call"
    /\ outcome' = to_dict(Get(Get(loc.result).photo))
    /\ pc' = IF outcome'.status = "returned" THEN "fd_call" ELSE "raised"
    /\ UNCHANGED <<entry, paths, coldpreview_size, has_callback, i, results,
                   cb_log, calls, loc>>

\* restored = CorePhoto.from_dict(data)
FD_Call ==
    /\ pc = "fd_call"
    /\ results' = <<from_dict(outcome.value[1])>>
    /\ pc' = "done"
    /\ UNCHANGED <<entry, paths, coldpreview_size, has_callback, i, cb_log,
                   calls, loc, outcome>>

NextRoundTrip == TD_Call \/ FD_Call

SpecRoundTrip == InitRoundTrip /\ [][NextRoundTrip]_vars

\* C20: for the record of every successful process_image call, to_dict
\* succeeds and from_dict of the dictionary has the hothash,
\* primary_filename, width and height of the record.
C20_DictRoundTrip ==
    entry = "to_dict" =>
        /\ pc # "raised"
        /\ pc = "done" =>
              LET photo == Get(Get(loc.result).photo)
                  restored == results[1]
              IN  /\ restored.hothash = photo.hothash
                  /\ restored.primary_filename = photo.primary_filename
                  /\ restored.width = photo.width
                  /\ restored.height = photo.height


(***************************************************************************)
(* Repeated calls of the preview generators: the same bytes under two      *)
(* names, other sources, and coldpreview calls in between                  *)
(***************************************************************************)
MaxCalls == 3

RepeatSources ==
    { GoodFile,
      [GoodFile EXCEPT !.name = "copy of photo.Png", !.suffix = ".Png"],
      [GoodFile EXCEPT !.name = "other.jpg", !.pixels = "B"],
      [GoodFile EXCEPT !.name = "sideways.jpg", !.exif.orientation = 6],
      [GoodFile EXCEPT !.name = "truncated.jpg", !.load_ok = FALSE] }
RepeatBoxes == {<<150, 150>>, <<100, 50>>}
RepeatQualities == {85, 50}

InitRepeat ==
    /\ entry = "repeat"
    /\ paths = <<>>
    /\ coldpreview_size = None
    /\ has_callback = FALSE
    /\ pc = "pg_loop"
    /\ i = 1
    /\ results = <<>>
    /\ cb_log = <<>>
    /\ calls = <<>>
    /\ loc = EmptyLoc
    /\ outcome = NoOutcome

\* one more PreviewGenerator.generate_hotpreview(path, size, quality)
RH_Call ==
    /\ pc = "pg_loop"
    /\ Len(results) < MaxCalls
    /\ \E f \in RepeatSources, size \in RepeatBoxes, quality \in RepeatQualities :
          results' = Append(results,
                            [call |-> "generate_hotpreview", file |-> f,
                             size |-> size, quality |-> quality,
                             out |-> generate_hotpreview(f, size, quality)])
    /\ UNCHANGED <<entry, paths, coldpreview_size, has_callback, pc, i, cb_log,
                   calls, loc, outcome>>

\* one more PreviewGenerator.generate_coldpreview(path, 1920)
RC_Call ==
    /\ pc = "pg_loop"
    /\ Len(results) < MaxCalls
    /\ \E f \in RepeatSources :
          results' = Append(results,
                            [call |-> "generate_coldpreview", file |-> f,
                             size |-> <<1920, 1920>>, quality |-> COLD_QUALITY,
                             out |-> generate_coldpreview(f, 1920, COLD_QUALITY)])
    /\ UNCHANGED <<entry, paths, coldpreview_size, has_callback, pc, i, cb_log,
                   calls, loc, outcome>>

NextRepeat == RH_Call \/ RC_Call

SpecRepeat == InitRepeat /\ [][NextRepeat]_vars

\* two sources hold the same bytes: they differ at most in their name
SameBytes(f, g) ==
    [f EXCEPT !.name = "", !.suffix = ""] = [g EXCEPT !.name = "", !.suffix = ""]

NOT_INSTALLED == "rawpy not installed - run: uv pip install rawpy"

\* the (success, image, error_message) triple, and whether rawpy.imread ran
RawReturn(success, image, error, decoded) ==
    [status |-> "returned", success |-> success, image |-> image,
     error |-> error, decoded |-> decoded]

\* a conversion that calls the decoder before looking at RAWPY_AVAILABLE
convert_raw_to_image_DecodeFirst(raw_bytes, available) ==
    IF ~available
    THEN RawReturn(FALSE, None,
                   Some(Reason("RAW processing failed: ",
                               "name 'rawpy' is not defined")), TRUE)
    ELSE IF raw_bytes.decode = "ok"
    THEN RawReturn(TRUE, Some([pixels |-> raw_bytes.pixels, mode |-> "RGB",
                               w |-> raw_bytes.w, h |-> raw_bytes.h]), None, TRUE)
    ELSE RawReturn(FALSE, None, Some(Reason("LibRaw error: ", raw_bytes.msg)), TRUE)

\* RawProcessor.convert_raw_to_image(raw_bytes) under RAWPY_AVAILABLE
convert_raw_to_image(raw_bytes, available) ==
    IF ~available THEN RawReturn(FALSE, None, Some(Reason(NOT_INSTALLED, "")), FALSE)
    ELSE CASE raw_bytes.decode = "ok" ->
                RawReturn(TRUE, Some([pixels |-> raw_bytes.pixels, mode |-> "RGB",
                                      w |-> raw_bytes.w, h |-> raw_bytes.h]),
                          None, TRUE)
           [] raw_bytes.decode = "LibRawError" ->
                RawReturn(FALSE, None,
                          Some(Reason("LibRaw error: ", raw_bytes.msg)), TRUE)
           [] OTHER ->
                RawReturn(FALSE, None,
                          Some(Reason("RAW processing failed: ", raw_bytes.msg)), TRUE)

\* what the decoder does with the bytes, and the text of its exception
RawDecodes == {"ok", "LibRawError", "Exception"}
RawMessages ==
    {"", "Unsupported file format or not RAW file", "Input/output error",
     "cannot reshape array", NOT_INSTALLED}
RawInputs ==
    { [decode |-> d, msg |-> m, pixels |-> p, w |-> w, h |-> 4000] :
        d \in RawDecodes, m \in RawMessages, p \in {"A", "B"},
        w \in {6000, 3} }

InitRaw ==
    /\ entry = "convert_raw_to_image"
    /\ paths \in {<<[raw_bytes |-> r, RAWPY_AVAILABLE |-> a]>> :
                      r \in RawInputs, a \in BOOLEAN}
    /\ coldpreview_size = None
    /\ has_callback = FALSE
    /\ pc = "cr_call"
    /\ i = 1
    /\ results = <<>>
    /\ cb_log = <<>>
    /\ calls = <<>>
    /\ loc = EmptyLoc
    /\ outcome = NoOutcome

\* success, img, error = RawProcessor.convert_raw_to_image(raw_bytes)
CR_Call ==
    /\ pc = "cr_call"
    /\ outcome' = convert_raw_to_image(paths[1].raw_bytes, paths[1].RAWPY_AVAILABLE)
    /\ pc' = "done"
    /\ UNCHANGED <<entry, paths, coldpreview_size, has_callback, i, results,
                   cb_log, calls, loc>>

NextRaw == CR_Call

SpecRaw == InitRaw /\ [][NextRaw]_vars

\* C21: convert_raw_to_image returns (True, image, None) or (False, None,
\* non-empty reason) and never raises; without the decoder library it
\* returns the "not installed" reason and attempts no decode, and no reason
\* of an available decoder that rejects the data is of that category.
C21_RawConversion ==
    (entry = "convert_raw_to_image" /\ pc = "done") =>
        LET r == outcome
            available == paths[1].RAWPY_AVAILABLE
            text(e) == Get(e).msg \o Get(e).arg
        IN  /\ r.status = "returned"
            /\ \/ r.success /\ IsSome(r.image) /\ IsNone(r.error)
               \/ ~r.success /\ IsNone(r.image) /\ IsSome(r.error)
                    /\ text(r.error) # ""
            /\ ~available =>
                  /\ ~r.success /\ ~r.decoded
                  /\ Get(r.error).msg = NOT_INSTALLED
            /\ (available /\ ~r.success) =>
                  /\ Get(r.error).msg # NOT_INSTALLED
                  /\ Get(r.error).msg \in {"LibRaw error: ", "RAW processing failed: "}

\* the library is missing and the bytes would have decoded
C21_Witness ==
    /\ entry = "convert_raw_to_image" /\ pc = "done"
    /\ ~paths[1].RAWPY_AVAILABLE /\ paths[1].raw_bytes.decode = "ok"
    /\ ~outcome.success /\ ~outcome.decoded
    /\ Get(outcome.error).msg = NOT_INSTALLED


(***************************************************************************)
(* PreviewGenerator.generate_both: the two statements of its body, each a  *)
(* call of a generator that opens the file itself.  calls logs every       *)
(* Image.open with the generator that made it.                             *)
(***************************************************************************)
DEFAULT_COLD_MAX_SIZE == 1920

ImageOpen(by) == [call |-> "Image.open", by |-> by]

InitBoth ==
    /\ entry = "generate_both"
    /\ paths \in {<<f>> : f \in PreviewSources}
    /\ coldpreview_size = None
    /\ has_callback = FALSE
    /\ pc = "gb_hot"
    /\ i = 1
    /\ results = <<>>
    /\ cb_log = <<>>
    /\ calls = <<>>
    /\ loc = EmptyLoc
    /\ outcome = NoOutcome

\* hotpreview = PreviewGenerator.generate_hotpreview(image_path)
GB_Hot ==
    /\ pc = "gb_hot"
    /\ LET hot == generate_hotpreview(CurrentFile, DEFAULT_HOT_SIZE, HOT_QUALITY)
       IN  /\ calls' = Append(calls, ImageOpen("generate_hotpreview"))
           /\ IF hot.ok
              THEN /\ results' = <<Get(hot.x)>>
                   /\ pc' = "gb_cold"
                   /\ UNCHANGED outcome
              ELSE /\ outcome' = Raised(hot.exc)
                   /\ pc' = "done"
                   /\ UNCHANGED results
    /\ UNCHANGED <<entry, paths, coldpreview_size, has_callback, i, cb_log, loc>>

\* coldpreview = PreviewGenerator.generate_coldpreview(image_path);
\* return hotpreview, coldpreview
GB_Cold ==
    /\ pc = "gb_cold"
    /\ LET cold == generate_coldpreview(CurrentFile, DEFAULT_COLD_MAX_SIZE, COLD_QUALITY)
       IN  /\ calls' = Append(calls, ImageOpen("generate_coldpreview"))
           /\ IF cold.ok
              THEN /\ results' = Append(results, Get(cold.x))
                   /\ outcome' = Returned(<<results[1], Get(cold.x)>>)
              ELSE /\ outcome' = Raised(cold.exc)
                   /\ UNCHANGED results
    /\ pc' = "done"
    /\ UNCHANGED <<entry, paths, coldpreview_size, has_callback, i, cb_log, loc>>

NextBoth == GB_Hot \/ GB_Cold

SpecBoth == InitBoth /\ [][NextBoth]_vars

\* C22: a call of generate_both that returns both previews has opened and
\* decoded the source exactly once.
C22_SingleDecode ==
    (entry = "generate_both" /\ pc = "done" /\ outcome.status = "returned") =>
        Len(calls) = 1


\* C23: generate_coldpreview called with its default arguments returns a
\* preview that fits within 1920x1080: width <= 1920 and height <= 1080.
C23_DefaultColdFits ==
    (PreviewCalled("generate_coldpreview") /\ outcome.status = "returned"
     /\ calls[1].size = <<DEFAULT_COLD_MAX_SIZE, DEFAULT_COLD_MAX_SIZE>>
     /\ calls[1].quality = COLD_QUALITY) =>
        /\ outcome.value[1].width <= 1920
        /\ outcome.value[1].height <= 1080


(***************************************************************************)
(* FormatDetector: detect_format, is_raw_format and is_supported called    *)
(* once each, in any order, on one file name                               *)
(***************************************************************************)
FormatStems == {"photo", "IMG_0001", "raw"}
FormatSuffixes ==
    SUPPORTED_EXTENSIONS
      \cup {".JPG", ".Png", ".NEF", ".CR3", ".Dng", ".HEIC", ".Jpeg",
            ".TXT", ".txt", ".gif", ".bmp", ""}
FormatNames ==
    { [name |-> stem \o suffix, suffix |-> suffix] :
        stem \in FormatStems, suffix \in FormatSuffixes }

InitFormat ==
    /\ entry = "FormatDetector"
    /\ paths \in {<<f>> : f \in FormatNames}
    /\ coldpreview_size = None
    /\ has_callback = FALSE
    /\ pc = "fmt_call"
    /\ i = 1
    /\ results = <<>>
    /\ cb_log = <<>>
    /\ calls = <<>>
    /\ loc = EmptyLoc
    /\ outcome = NoOutcome

FormatCalled(name) == \E k \in 1..Len(calls) : calls[k] = name
\* the value the named function returned
FormatResult(name) == results[CHOOSE k \in 1..Len(calls) : calls[k] = name]
\* the call returns; after the third one the run is over
FormatReturn(name, value) ==
    /\ ~FormatCalled(name)
    /\ calls' = Append(calls, name)
    /\ results' = Append(results, value)
    /\ pc' = IF Len(calls) = 2 THEN "done" ELSE pc
    /\ UNCHANGED <<entry, paths, coldpreview_size, has_callback, i, cb_log,
                   loc, outcome>>

\* FormatDetector.detect_format(file_path)
DF_Call == pc = "fmt_call" /\ FormatReturn("detect_format", detect_format(CurrentFile))
\* FormatDetector.is_raw_format(file_path)
IRF_Call == pc = "fmt_call" /\ FormatReturn("is_raw_format", is_raw_format(CurrentFile))
\* FormatDetector.is_supported(file_path)
IS_Call == pc = "fmt_call" /\ FormatReturn("is_supported", is_supported(CurrentFile))

NextFormat == DF_Call \/ IRF_Call \/ IS_Call

SpecFormat == InitFormat /\ [][NextFormat]_vars

\* the same extension in lower case behind another stem
SameExtension == [name |-> "other" \o Lower(CurrentFile.suffix), suffix |-> Lower(CurrentFile.suffix)]

\* C24: detect_format(name) is None exactly when is_supported(name) is
\* false; the three functions give a name what they give any name with the
\* same extension in any case; and a RAW name is a supported name.
C24_DetectIffSupported ==
    (entry = "FormatDetector" /\ pc = "done") =>
        /\ IsNone(FormatResult("detect_format")) <=> ~FormatResult("is_supported")
        /\ FormatResult("detect_format") = detect_format(SameExtension)
        /\ FormatResult("is_raw_format") = is_raw_format(SameExtension)
        /\ FormatResult("is_supported") = is_supported(SameExtension)
        /\ FormatResult("is_raw_format") => FormatResult("is_supported")


\* C25: in process_image a RAW input that passed validation is decoded by
\* the RAW decoder before its metadata is extracted and its previews are
\* made, and the decoder is invoked for RAW inputs only.
C25_RawDecodedFirst ==
    InProcessImage =>
        \A k \in 1..Len(calls) :
            /\ (calls[k].ev \in ProcessingSteps /\ is_raw_format(paths[calls[k].item])) =>
                    \E j \in 1..(k - 1) :
                        /\ calls[j].ev = "convert_raw_to_image"
                        /\ calls[j].item = calls[k].item
            /\ calls[k].ev = "convert_raw_to_image" => is_raw_format(paths[calls[k].item])


\* a tag of the file: in the first IFD, else in the Exif IFD
FileTag(first, second) == IF IsSome(first) THEN first ELSE second
\* DateTimeOriginal, DateTimeDigitized and DateTime of a file, by priority
DateTags(exif) ==
    <<FileTag(exif.dt_original, exif.exif_ifd.dt_original),
      FileTag(exif.dt_digitized, exif.exif_ifd.dt_digitized), exif.dt>>

\* C26: taken_at of extract_basic comes from the first of DateTimeOriginal,
\* DateTimeDigitized, DateTime that the file holds with a non-empty value;
\* it is absent only when none of the three is non-empty; a value in no
\* known format is returned as it is.
C26_TakenAtPriority ==
    (ExtractorDone /\ entry = "extract_basic" /\ paths[1].opens
     /\ paths[1].exif.present) =>
        LET tags == DateTags(paths[1].exif)
            hit == {j \in 1..3 : IsSome(tags[j]) /\ Get(tags[j]).s # ""}
            taken_at == outcome.value[1].taken_at
        IN  IF hit = {} THEN IsNone(taken_at)
            ELSE LET first == Get(tags[CHOOSE m \in hit : \A n \in hit : m <= n])
                 IN  /\ taken_at = Some(_standardize_datetime(first))
                     /\ first.s = "not a date" => taken_at = Some(first)


\* a tag that is absent or holds one plain number
PlainOrAbsent(tag) == tag = NoTag \/ (NumberTag(tag) /\ tag.v[1].k = "num")

\* C27: for an exposure time n/d with d > 0, shutter_speed is "1/N" exactly
\* when the value is below 1 and its reciprocal is the integer N, and else
\* the value as a decimal string of 3 decimals (trailing zeros or not), in
\* extract_camera_settings and in extract_camera_settings_from_bytes.
C27_ShutterFormat ==
    (ExtractorDone
     /\ entry \in {"extract_camera_settings", "extract_camera_settings_from_bytes"}
     /\ paths[1].opens /\ paths[1].exif.present
     /\ PlainOrAbsent(paths[1].exif.iso) /\ PlainOrAbsent(paths[1].exif.fnumber)
     /\ NumberTag(paths[1].exif.exposure)
     /\ paths[1].exif.exposure.v[1].d > 0 /\ paths[1].exif.exposure.v[1].n >= 0) =>
        LET c == paths[1].exif.exposure.v[1]
            shutter_speed == outcome.value[1].shutter_speed
        IN  IF c.n > 0 /\ c.n < c.d /\ c.d % c.n = 0
            THEN shutter_speed = Some("1/" \o ToString(c.d \div c.n))
            ELSE shutter_speed \in {Some(Fixed3(c)), Some(StrRound3(c))}


\* the labels extract_camera_settings has for the codes -1 .. 20
LabelCodes == -1..20
ProgramLabels == {programs(k) : k \in LabelCodes}
MeteringLabels == {metering(k) : k \in LabelCodes}
\* a LabelSources file whose reads before the three labels all succeed
LabelsRead ==
    /\ ExtractorDone /\ entry = "extract_camera_settings"
    /\ paths[1] \in LabelSources
    /\ paths[1].exif.flash = NoTag \/ IntegerTag(paths[1].exif.flash)
\* what the claim says of each label, but for the number of program labels
LabelRules ==
    LET e == paths[1].exif
        m == outcome.value[1]
    IN  /\ Present(e.exposure_program) =>
              /\ IsSome(m.exposure_program)
              /\ Get(m.exposure_program) \in ProgramLabels
              /\ (IntegerTag(e.exposure_program) /\ e.exposure_program.v[1].n \notin 0..8)
                    => m.exposure_program = Some("Unknown")
              /\ e.exposure_program = ScalarTag(Num(0, 1))
                    => m.exposure_program = Some("Not Defined")
        /\ Present(e.metering_mode) =>
              /\ IsSome(m.metering_mode)
              /\ Get(m.metering_mode) \in MeteringLabels
        /\ Cardinality(MeteringLabels) = 7
        /\ IntegerTag(e.flash) =>
              (m.flash = Some("Fired")) = (e.flash.v[1].n % 2 = 1)
        /\ IntegerTag(e.white_balance) =>
              m.white_balance = Some(IF e.white_balance.v[1].n = 0 THEN "Auto" ELSE "Manual")

\* C28 as stated: the exposure-program label is one of exactly 9 values,
\* "Unknown" and "Not Defined" included, an unrecognised code giving
\* "Unknown"; the metering label is one of exactly 7 values; flash is
\* "Fired" exactly when bit 0 is set; white balance is "Auto" for 0 and
\* "Manual" for any other value.
C28_NineProgramLabels ==
    LabelsRead => (LabelRules /\ Cardinality(ProgramLabels) = 9)

\* C28, amended: the same with exactly 10 exposure-program labels, the 9 of
\* the table for the codes 0 .. 8 and "Unknown" for every other code.
C28_TenProgramLabels ==
    LabelsRead => (LabelRules /\ Cardinality(ProgramLabels) = 10)

\* code 9 is in no table, the flash has fired, white balance is manual
C28_Witness ==
    /\ LabelsRead
    /\ paths[1].exif.exposure_program = ScalarTag(Num(9, 1))
    /\ paths[1].exif.metering_mode = ScalarTag(Num(255, 1))
    /\ paths[1].exif.flash = ScalarTag(Num(1, 1))
    /\ paths[1].exif.white_balance = ScalarTag(Num(1, 1))
    /\ outcome.value[1].exposure_program = Some("Unknown")
    /\ outcome.value[1].metering_mode = Some("Unknown")
    /\ outcome.value[1].flash = Some("Fired")
    /\ outcome.value[1].white_balance = Some("Manual")


\* a field that is absent, or a non-empty text without surrounding blanks
TrimmedOrAbsent(x) == IsNone(x) \/ (Get(x) # "" /\ Get(x) = Strip(Get(x)))

\* C29: camera_make and camera_model of extract_basic and of
\* extract_basic_from_bytes are absent or non-empty strings without leading
\* or trailing whitespace: an empty or whitespace-only tag gives an absent
\* field.
C29_MakeModelTrimmed ==
    BasicDone =>
        /\ TrimmedOrAbsent(outcome.value[1].camera_make)
        /\ TrimmedOrAbsent(outcome.value[1].camera_model)


\* has_gps of a record says that both coordinates are in it
GpsFlagAgrees(photo) ==
    photo.has_gps <=> (IsSome(photo.gps_latitude) /\ IsSome(photo.gps_longitude))

\* C30: in every record of a successful process_image call and of a 200
\* response of the endpoint, has_gps is true exactly when gps_latitude and
\* gps_longitude are both present, as CorePhoto.has_location computes it.
C30_HasGpsIffBoth ==
    /\ InProcessImage =>
          \A r \in ReturnedResults : r.success => GpsFlagAgrees(Get(r.photo))
    /\ (outcome.status = "http" /\ outcome.value[1].code = 200) =>
          GpsFlagAgrees(Get(outcome.value[1].body))

====
